---- MODULE Spec2Model ----
(***************************************************************************)
(* Kobo-UNCaGED: the identity mapper, the metadata store and the catalog   *)
(* reconciler of kobo-uncaged/main.go (type KoboUncaged) and of            *)
(* kobo-uncaged/device/device.go (type Kobo), and the thumbnail join       *)
(* barrier of device.go.                                                   *)
(*                                                                         *)
(* Strings that the code inspects (paths, content identifiers) are         *)
(* sequences of tokens: each token is a run of characters that none of the *)
(* code's prefix/suffix tests can split ("/", ".kepub", ".epub", a name).  *)
(* Optional (pointer) fields are <<>> for nil and <<v>> for a value.       *)
(***************************************************************************)
EXTENDS Integers, Sequences, FiniteSets, TLC

VARIABLES
    contentIDprefix,  \* ku.contentIDprefix / k.ContentIDprefix
    mapKind,          \* identity mapper run: what the first string is
    mapTrace,         \* identity mapper run: the strings produced so far
    impl,             \* which program runs: "device" (device.go) or "main" (main.go)
    catalog,          \* the rows of the content table of KoboReader.sqlite
    fs,               \* book files under the storage root
    rootMtime,        \* modification time of the storage root directory
    mdFile,           \* metadata.calibre
    pc,               \* where the session is
    err,              \* the error New returned ("nil" for none)
    MetadataMap,      \* k.MetadataMap / ku.metadataMap
    nickelDB,         \* the catalog connection
    wg,               \* k.Wg: the WaitGroup counter
    units,            \* the SaveCoverImage goroutines
    covers,           \* cover files written under the image directory
    genLevel,         \* k.KuConfig.Thumbnail.GenerateLevel
    sessions,         \* sessions started so far
    mdAtStart,        \* metadata.calibre as it was when the session started
    written,          \* what each successful readMDfile saved, and from what
    updatingMD,       \* New's updatingMD argument (device.go)
    updFile,          \* metadata_update.kobouc
    updatedMetadata,  \* ku.updatedMetadata (main.go): identifier -> record
    UpdatedMetadata,  \* k.UpdatedMetadata (device.go): identifiers
    ret,              \* what the last collaborator call returned
    ops,              \* collaborator calls made so far
    versFile,         \* .kobo/version
    diFile,           \* driveinfo.calibre
    Device,           \* k.Device / ku.koboInfo.model
    driveInfo,        \* k.DriveInfo.DevInfo / ku.driveInfo.DevInfo
    uuids,            \* identifiers that uuid.NewV4 has generated so far
    sent,             \* the cover images that the caller may pass to SaveCoverImage
    Passwords         \* k.Passwords: passwordList and currPassIndex

idVars == <<mapKind, mapTrace>>
envVars == <<catalog, fs, rootMtime, mdFile>>
thumbVars == <<wg, units, covers, genLevel>>
opVars == <<updatingMD, updFile, updatedMetadata, UpdatedMetadata, ret, ops>>
devVars == <<versFile, diFile, Device, driveInfo, uuids, sent, Passwords>>
vars == <<contentIDprefix, mapKind, mapTrace, impl, catalog, fs, rootMtime,
          mdFile, pc, err, MetadataMap, nickelDB, wg, units, covers, genLevel,
          sessions, mdAtStart, written, updatingMD, updFile, updatedMetadata,
          UpdatedMetadata, ret, ops, versFile, diFile, Device, driveInfo,
          uuids, sent, Passwords>>

----------------------------------------------------------------------------
(* strings package, on token sequences *)

HasPrefix(s, p) ==
    Len(s) >= Len(p) /\ SubSeq(s, 1, Len(p)) = p

HasSuffix(s, p) ==
    Len(s) >= Len(p) /\ SubSeq(s, Len(s) - Len(p) + 1, Len(s)) = p

TrimPrefix(s, p) ==
    IF HasPrefix(s, p) THEN SubSeq(s, Len(p) + 1, Len(s)) ELSE s

TrimSuffix(s, p) ==
    IF HasSuffix(s, p) THEN SubSeq(s, 1, Len(s) - Len(p)) ELSE s

onboardPrefix == <<"file://", "/", "mnt", "/", "onboard", "/">>
sdPrefix == <<"file://", "/", "mnt", "/", "sd", "/">>

----------------------------------------------------------------------------
(* Identity mapper of main.go *)

lpathIsKepub(lpath) == HasSuffix(lpath, <<".kepub">>)

contentIDisKepub(contentID) == HasSuffix(contentID, <<".kepub", ".epub">>)

lpathToContentID(lpath) ==
    LET newLpath == IF lpathIsKepub(lpath) THEN lpath \o <<".epub">> ELSE lpath
    IN  contentIDprefix \o TrimPrefix(newLpath, <<"/">>)

contentIDtoLpath(contentID) ==
    LET newCID == IF contentIDisKepub(contentID)
                  THEN TrimSuffix(contentID, <<".epub">>)
                  ELSE contentID
    IN  IF HasPrefix(newCID, contentIDprefix)
        THEN TrimPrefix(newCID, contentIDprefix)
        ELSE newCID

contentIDtoBkPath(contentID) == TrimPrefix(contentID, contentIDprefix)

contentIDisBkDir(contentID) == HasPrefix(contentID, contentIDprefix)

----------------------------------------------------------------------------
(* Bounds of the model *)

MaxCacheLen == 2     \* records in the side-cache file the first session finds
MaxSessions == 2     \* sessions run one after the other
MaxUnits == 2        \* cover-processing goroutines scheduled in a session
MaxMapLen == 4       \* tokens of a path given to the identity mapper
MaxOps == 3          \* collaborator calls made on the sessions of a run

----------------------------------------------------------------------------
(* Small helpers *)

None == <<>>
Some(x) == <<x>>

Range(f) == {f[x] : x \in DOMAIN f}

SetMax(S) == CHOOSE m \in S : \A x \in S : x <= m

\* All sequences over S of length at most n.
RECURSIVE SeqsUpTo(_, _)
SeqsUpTo(S, n) ==
    IF n = 0 THEN {<<>>}
    ELSE LET shorter == SeqsUpTo(S, n - 1)
         IN  shorter \cup {Append(q, x) : q \in {r \in shorter : Len(r) = n - 1}, x \in S}

\* All orders in which the elements of the finite set S can be listed.
RECURSIVE Orders(_)
Orders(S) ==
    IF S = {} THEN {<<>>}
    ELSE UNION {{<<x>> \o q : q \in Orders(S \ {x})} : x \in S}

\* strings.Split(s, sep) for a one-token separator.
RECURSIVE Split(_, _)
Split(s, sep) ==
    IF \A i \in 1..Len(s) : s[i] # sep THEN <<s>>
    ELSE LET i == CHOOSE j \in 1..Len(s) :
                      s[j] = sep /\ \A h \in 1..(j - 1) : s[h] # sep
         IN  <<SubSeq(s, 1, i - 1)>> \o Split(SubSeq(s, i + 1, Len(s)), sep)

\* strings.TrimSpace
RECURSIVE TrimSpace(_)
TrimSpace(s) ==
    IF s # <<>> /\ s[1] = " " THEN TrimSpace(Tail(s))
    ELSE IF s # <<>> /\ s[Len(s)] = " " THEN TrimSpace(SubSeq(s, 1, Len(s) - 1))
    ELSE s

\* strconv.ParseFloat on the series-number texts of the model's catalog;
\* the value is in tenths (25 is 2.5).
ParseFloat(text) ==
    CASE text = "2.5" -> [ok |-> TRUE, val |-> 25]
      [] text = "1" -> [ok |-> TRUE, val |-> 10]
      [] OTHER -> [ok |-> FALSE, val |-> 0]

\* filepath.Join(root, lpath), relative to the root: separators at the
\* front are dropped by Clean.
RECURSIVE JoinRoot(_)
JoinRoot(lpath) ==
    IF lpath # <<>> /\ lpath[1] = "/" THEN JoinRoot(Tail(lpath)) ELSE lpath

----------------------------------------------------------------------------
(* util package (not among the sources): path and identifier conversions   *)
(* as section 4.1 of the specification states them, and the JSON helpers   *)
(* as section 4.2 states load() and save().                                *)

LpathIsKepub(lpath) == HasSuffix(lpath, <<".kepub">>)

LpathKepubConvert(lpath) ==
    IF LpathIsKepub(lpath) THEN lpath \o <<".epub">> ELSE lpath

LpathToContentID(lpath, prefix) == prefix \o lpath

ContentIDtoLpath(cid, prefix) ==
    IF HasPrefix(cid, prefix)
    THEN TrimPrefix(IF HasSuffix(cid, <<".kepub", ".epub">>)
                    THEN TrimSuffix(cid, <<".epub">>) ELSE cid, prefix)
    ELSE cid

ContentIDtoBkPath(cid, prefix) == TrimPrefix(cid, prefix)

\* util.ReadJSON: (emptyOrNotExist, err, value)
ReadJSON(file) ==
    CASE file.kind \in {"absent", "empty"} ->
             [emptyOrNotExist |-> TRUE, err |-> FALSE, val |-> <<>>]
      [] file.kind = "json" ->
             [emptyOrNotExist |-> FALSE, err |-> FALSE, val |-> file.recs]
      [] OTHER ->
             [emptyOrNotExist |-> FALSE, err |-> TRUE, val |-> <<>>]

\* util.WriteJSON: the file, fully replaced by the sequence given
WriteJSON(recs) == [kind |-> "json", recs |-> recs]

----------------------------------------------------------------------------
(* Metadata records *)

CreateKoboMetadata ==
    [Lpath |-> <<>>, UUID |-> "", Title |-> "", Authors |-> <<>>,
     Comments |-> None, Publisher |-> None, Series |-> None,
     SeriesIndex |-> None, Size |-> 0, LastModified |-> None,
     Languages |-> <<>>, TitleSort |-> "", Identifiers |-> <<>>,
     Pubdate |-> None, Timestamp |-> None]

\* main.go: the same constructor
createKoboMetadata == CreateKoboMetadata

\* The zero value KoboMetadata{} that make([]KoboMetadata, n) fills a slice with
ZeroMetadata == CreateKoboMetadata

\* md.Identifiers[k] = v
MapPut(m, k, v) == [x \in DOMAIN m \cup {k} |-> IF x = k THEN v ELSE m[x]]

----------------------------------------------------------------------------
(* The environment: catalog rows, book files and their containers *)

MimeEpub == <<"application", "/epub+zip">>
MimeKepub == <<"application", "/x-kobo-epub+zip">>
MimePdf == <<"application", "/pdf">>
MimeJpeg == <<"image", "/jpeg">>

FileA == <<"a", ".epub">>
FileB == <<"b", ".kepub", ".epub">>
FileC == <<"c", ".pdf">>

RowA ==
    [ContentID |-> onboardPrefix \o FileA, Title |-> Some("A"),
     Attribution |-> Some(<<"A. Author", ",", " ", " ", "B. Author">>),
     Description |-> Some(<<"about A">>), Publisher |-> Some("P"),
     Series |-> Some("S"), SeriesNumber |-> Some("2.5"),
     SeriesNumberFloat |-> Some(25), ContentType |-> 6,
     MimeType |-> MimeEpub, IsDownloaded |-> "true", FileSize |-> 100,
     Accessibility |-> -1]

RowB ==
    [ContentID |-> onboardPrefix \o FileB, Title |-> None,
     Attribution |-> None, Description |-> None, Publisher |-> None,
     Series |-> None, SeriesNumber |-> Some("abc"),
     SeriesNumberFloat |-> None, ContentType |-> 6,
     MimeType |-> MimeKepub, IsDownloaded |-> "1", FileSize |-> 200,
     Accessibility |-> -1]

RowC ==
    [ContentID |-> onboardPrefix \o FileC, Title |-> Some("C"),
     Attribution |-> Some(<<"C. Author">>), Description |-> None,
     Publisher |-> None, Series |-> None, SeriesNumber |-> None,
     SeriesNumberFloat |-> None, ContentType |-> 6, MimeType |-> MimePdf, IsDownloaded |-> "true",
     FileSize |-> 300, Accessibility |-> -1]

\* Rows that are always there and that the existence query must leave out:
\* a book on the other storage, an image, and a chapter of book A.
FixedRows ==
    {[RowA EXCEPT !.ContentID = sdPrefix \o <<"d", ".epub">>],
     [RowC EXCEPT !.ContentID = onboardPrefix \o <<"e", ".jpg">>,
                  !.MimeType = MimeJpeg],
     [RowA EXCEPT !.ContentID = onboardPrefix \o FileA \o <<"#ch1">>,
                  !.ContentType = 9]}

\* What the catalog may hold for each book: nothing, a row that the
\* existence query returns, or a row that one of its conditions rejects.
RowChoices ==
    <<{{}, {RowA}, {[RowA EXCEPT !.IsDownloaded = "false"]}},
      {{}, {RowB}, {[RowB EXCEPT !.Accessibility = 1]}},
      {{}, {RowC}, {[RowC EXCEPT !.FileSize = 0]}}>>

Catalogs ==
    {a \cup b \cup c \cup FixedRows :
        a \in RowChoices[1], b \in RowChoices[2], c \in RowChoices[3]}

\* The package document of each book file that is an epub container.
Opf(path) ==
    IF path = FileA
    THEN [Title |-> <<"A (opf)">>,
          Description |-> <<<<"Tom ", "&amp;", " Jerry">>>>,
          Language |-> <<"en">>,
          Creator |-> <<[Role |-> "aut", Data |-> <<"A. Author">>],
                        [Role |-> "edt", Data |-> <<"E. Editor">>]>>,
          Publisher |-> <<"P (opf)">>,
          Date |-> <<"2001">>,
          Identifier |-> <<[Scheme |-> "UUID", Data |-> "uuid-a"],
                           [Scheme |-> "calibre", Data |-> "calibre-a"],
                           [Scheme |-> "ISBN", Data |-> "isbn-a"]>>,
          Meta |-> <<[Name |-> "calibre:series", Content |-> "S (opf)"],
                     [Name |-> "calibre:series_index", Content |-> "1"],
                     [Name |-> "calibre:title_sort", Content |-> "A, The"]>>]
    ELSE [Title |-> <<>>, Description |-> <<>>, Language |-> <<>>,
          Creator |-> <<>>, Publisher |-> <<>>, Date |-> <<>>,
          Identifier |-> <<[Scheme |-> "uuid", Data |-> "uuid-b"]>>,
          Meta |-> <<[Name |-> "calibre:series_index", Content |-> "abc"],
                     [Name |-> "calibre:timestamp", Content |-> "2002"]>>]

FileSizeOf(path) == IF path = FileA THEN 100 ELSE IF path = FileB THEN 200 ELSE 300

\* Book files: each is there; "bad" is a file that epub.Open rejects.
FileStates ==
    {[p \in {FileA, FileB, FileC} |->
         IF p = FileA THEN a ELSE IF p = FileB THEN b ELSE "ok"] :
        a \in {"ok", "bad"}, b \in {"ok", "bad"}}

\* os.Stat(filepath.Join(root, lpath)): an empty lpath names the root itself
Stat(lpath) ==
    LET p == JoinRoot(lpath)
    IN  IF p = <<>>
        THEN [ok |-> TRUE, Size |-> 4096, ModTime |-> rootMtime]
        ELSE IF p \in DOMAIN fs
        THEN [ok |-> TRUE, Size |-> FileSizeOf(p), ModTime |-> 0]
        ELSE [ok |-> FALSE, Size |-> 0, ModTime |-> 0]

\* epub.Open(path)
EpubOpen(path) ==
    IF path \in DOMAIN fs /\ fs[path] = "ok" /\ path \in {FileA, FileB}
    THEN [err |-> FALSE, opf |-> Opf(path)]
    ELSE [err |-> TRUE, opf |-> Opf(FileB)]

\* strings.ToLower on the identifier schemes of the model
ToLower(x) == IF x = "UUID" THEN "uuid" ELSE IF x = "ISBN" THEN "isbn" ELSE x

\* html.UnescapeString, token by token
UnescapeString(s) ==
    [i \in DOMAIN s |-> IF s[i] = "&amp;" THEN "&"
                        ELSE IF s[i] = "&lt;" THEN "<" ELSE s[i]]

----------------------------------------------------------------------------
(* readEpubMeta: what both programs take from an opened container *)

RECURSIVE FoldIdentifiers(_, _)
FoldIdentifiers(md, idents) ==
    IF idents = <<>> THEN md
    ELSE LET ident == Head(idents)
             scheme == ToLower(ident.Scheme)
             next == CASE scheme = "calibre" -> [md EXCEPT !.UUID = ident.Data]
                       [] scheme = "uuid" ->
                              IF md.UUID = "" THEN [md EXCEPT !.UUID = ident.Data]
                              ELSE md
                       [] OTHER ->
                              [md EXCEPT !.Identifiers =
                                             MapPut(@, ident.Scheme, ident.Data)]
         IN  FoldIdentifiers(next, Tail(idents))

RECURSIVE FoldCreators(_, _)
FoldCreators(authors, creators) ==
    IF creators = <<>> THEN authors
    ELSE FoldCreators(IF Head(creators).Role = "aut"
                      THEN Append(authors, Head(creators).Data)
                      ELSE authors,
                      Tail(creators))

RECURSIVE FoldMeta(_, _)
FoldMeta(md, metas) ==
    IF metas = <<>> THEN md
    ELSE LET m == Head(metas)
             next == CASE m.Name = "calibre:timestamp" ->
                              [md EXCEPT !.Timestamp = Some(m.Content)]
                       [] m.Name = "calibre:series" ->
                              [md EXCEPT !.Series = Some(m.Content)]
                       [] m.Name = "calibre:series_index" ->
                              \* seriesIndex, _ := strconv.ParseFloat(...)
                              [md EXCEPT !.SeriesIndex = Some(ParseFloat(m.Content).val)]
                       [] m.Name = "calibre:title_sort" ->
                              [md EXCEPT !.TitleSort = m.Content]
                       [] OTHER -> md
         IN  FoldMeta(next, Tail(metas))

FillFromOpf(md, lpath, opf) ==
    LET m1 == FoldIdentifiers([md EXCEPT !.Lpath = lpath], opf.Identifier)
        m2 == IF Len(opf.Title) > 0 THEN [m1 EXCEPT !.Title = opf.Title[1]] ELSE m1
        m3 == IF Len(opf.Description) > 0
              THEN [m2 EXCEPT !.Comments = Some(UnescapeString(opf.Description[1]))]
              ELSE m2
        m4 == IF Len(opf.Language) > 0
              THEN [m3 EXCEPT !.Languages = @ \o opf.Language] ELSE m3
        m5 == [m4 EXCEPT !.Authors = FoldCreators(@, opf.Creator)]
        m6 == IF Len(opf.Publisher) > 0
              THEN [m5 EXCEPT !.Publisher = Some(opf.Publisher[1])] ELSE m5
        m7 == IF Len(opf.Date) > 0
              THEN [m6 EXCEPT !.Pubdate = Some(opf.Date[1])] ELSE m6
    IN  FoldMeta(m7, opf.Meta)

\* device.go: Kobo.readEpubMeta(contentID, md)
readEpubMeta(contentID, md) ==
    LET lpath == ContentIDtoLpath(contentID, contentIDprefix)
        bk == EpubOpen(ContentIDtoBkPath(contentID, contentIDprefix))
    IN  IF bk.err THEN [err |-> TRUE, md |-> md]
        ELSE [err |-> FALSE, md |-> FillFromOpf(md, lpath, bk.opf)]

\* main.go: KoboUncaged.readEpubMeta(contentID)
ku_readEpubMeta(contentID) ==
    LET md == createKoboMetadata
        lpath == contentIDtoLpath(contentID)
        bk == EpubOpen(contentIDtoBkPath(contentID))
    IN  IF bk.err THEN [err |-> TRUE, md |-> md]
        ELSE [err |-> FALSE, md |-> FillFromOpf(md, lpath, bk.opf)]

----------------------------------------------------------------------------
(* device.go: Kobo.readMDfile, the parts without side effects *)

\* The WHERE clause of the existence query
Qualifies(row) ==
    /\ row.ContentType = 6
    /\ ~HasPrefix(row.MimeType, <<"image">>)
    /\ row.IsDownloaded \in {"true", "1"}
    /\ row.FileSize > 0
    /\ row.Accessibility = -1
    /\ HasPrefix(row.ContentID, contentIDprefix)

QueryRows == {row \in catalog : Qualifies(row)}

RowOf(rows, cid) == CHOOSE row \in rows : row.ContentID = cid

\* The identifier recomputed from a cached record's path
RecomputedID(md) ==
    LpathToContentID(LpathKepubConvert(md.Lpath), contentIDprefix)

SetMin(S) == CHOOSE m \in S : \A x \in S : m <= x

\* A lookup in which the first record of an identifier wins
tmpMapFirst(koboMD) ==
    [cid \in {RecomputedID(koboMD[n]) : n \in 1..Len(koboMD)} |->
        SetMin({n \in 1..Len(koboMD) : RecomputedID(koboMD[n]) = cid})]

\* tmpMap[contentID] = n, in file order: the last record of an identifier wins
tmpMap(koboMD) ==
    [cid \in {RecomputedID(koboMD[n]) : n \in 1..Len(koboMD)} |->
        SetMax({n \in 1..Len(koboMD) : RecomputedID(koboMD[n]) = cid})]

\* The record made for a row that is not in the cache
SynthRecord(row) ==
    LET b0 == [CreateKoboMetadata EXCEPT !.Comments = row.Description,
                                         !.Publisher = row.Publisher,
                                         !.Series = row.Series]
        b1 == IF row.Title # None THEN [b0 EXCEPT !.Title = row.Title[1]] ELSE b0
        b2 == IF row.SeriesNumber # None /\ ParseFloat(row.SeriesNumber[1]).ok
              THEN [b1 EXCEPT !.SeriesIndex = Some(ParseFloat(row.SeriesNumber[1]).val)]
              ELSE b1
        b3 == IF row.Attribution # None
              THEN [b2 EXCEPT !.Authors =
                       LET parts == Split(row.Attribution[1], ",")
                       IN  [i \in 1..Len(parts) |-> TrimSpace(parts[i])]]
              ELSE b2
        b4 == IF row.MimeType \in {MimeEpub, MimeKepub}
              THEN readEpubMeta(row.ContentID, b3).md
              ELSE b3
        fi == Stat(b4.Lpath)
    IN  IF fi.ok
        THEN [b4 EXCEPT !.LastModified = Some(fi.ModTime), !.Size = fi.Size]
        ELSE b4

\* The body of the row loop
RowRecord(row, koboMD) ==
    IF row.ContentID \notin DOMAIN tmpMap(koboMD)
    THEN SynthRecord(row)
    ELSE koboMD[tmpMap(koboMD)[row.ContentID]]

\* k.MetadataMap after the loop has run over rows
StoreOf(rows, koboMD) ==
    [cid \in {row.ContentID : row \in rows} |-> RowRecord(RowOf(rows, cid), koboMD)]

\* WriteMDfile: the map's records, in the map's iteration order
WriteMDfile(store, order) ==
    WriteJSON([n \in 1..Len(order) |-> store[order[n]]])

----------------------------------------------------------------------------
(* main.go: KoboUncaged.readMDfile, the parts without side effects *)

\* SELECT ContentID FROM content WHERE ContentID=? AND ContentType=6
ku_RowExists(contentID) ==
    \E row \in catalog : row.ContentID = contentID /\ row.ContentType = 6

\* The loop over the cached records, in file order
RECURSIVE ku_CachedLoop(_, _)
ku_CachedLoop(map, koboMD) ==
    IF koboMD = <<>> THEN map
    ELSE LET md == Head(koboMD)
             contentID == lpathToContentID(md.Lpath)
         IN  ku_CachedLoop(IF ku_RowExists(contentID)
                           THEN MapPut(map, contentID, md)
                           ELSE map,
                           Tail(koboMD))

\* The rows of the second query
ku_QueryRows ==
    {row \in catalog :
        /\ row.ContentType = 6
        /\ row.MimeType \in {MimeEpub, MimeKepub}
        /\ HasPrefix(row.ContentID, contentIDprefix)}

\* The record made for a row that is not in the map
ku_SynthRecord(row) ==
    LET bkMD == ku_readEpubMeta(row.ContentID).md
        fi == Stat(bkMD.Lpath)
    IN  IF fi.ok
        THEN [bkMD EXCEPT !.LastModified = Some(fi.ModTime), !.Size = fi.Size]
        ELSE bkMD

\* ku.metadataMap after the row loop has run over rows
ku_StoreOf(map, rows) ==
    [cid \in DOMAIN map \cup {row.ContentID : row \in rows} |->
        IF cid \in DOMAIN map THEN map[cid] ELSE ku_SynthRecord(RowOf(rows, cid))]

\* The rows at which the row loop returns the container's error
ku_FailingRows(map) ==
    {row \in ku_QueryRows :
        row.ContentID \notin DOMAIN map /\ ku_readEpubMeta(row.ContentID).err}

\* writeMDfile: make([]KoboMetadata, len(map)), then append for each record
writeMDfile(store, order) ==
    WriteJSON([n \in 1..Len(order) |-> ZeroMetadata]
              \o [n \in 1..Len(order) |-> store[order[n]]])

----------------------------------------------------------------------------
(* Session construction: New, which ends in readMDfile *)

File(kind) == [kind |-> kind, recs |-> <<>>]

\* A goroutine that is not running holds no image
NoImage == [pc |-> "none", img |-> "none", sz |-> "none", isz |-> "none",
            next |-> 1, errs |-> FALSE]

NoUnits == [u \in 1..MaxUnits |-> NoImage]

\* A loader that takes every unreadable file for an empty one
LoadNeverFails(ld) == FALSE

\* device.go, readMDfile lines 272-277: the load error that ends the session
LoadFails(ld) == ~ld.emptyOrNotExist /\ ld.err

\* New returns (nil, e): there is no session object
NewFails(e, store) ==
    /\ pc' = IF e = "panic" THEN "crashed" ELSE "failed"
    /\ err' = e
    /\ MetadataMap' = store
    /\ nickelDB' = "none"
    /\ UpdatedMetadata' = <<>>
    /\ UNCHANGED <<written>>

\* readMDfile has saved recs and returned nil. device.go, New lines 111-117:
\* with updatingMD, readUpdateMDfile (lines 383-392) loads k.UpdatedMetadata
\* and its error makes New return (nil, err); otherwise New returns (k, nil)
NewSucceeds(store, file) ==
    /\ LET upd == ReadJSON(updFile)
           reads == impl = "device" /\ updatingMD
           fails == reads /\ LoadFails(upd)
       IN  /\ pc' = IF fails THEN "failed" ELSE "ready"
           /\ err' = IF fails THEN "update" ELSE "nil"
           /\ nickelDB' = IF fails THEN "none" ELSE "open"
           /\ UpdatedMetadata' = IF reads /\ ~fails THEN upd.val ELSE <<>>
    /\ MetadataMap' = store
    /\ mdFile' = file
    /\ rootMtime' = IF mdFile.kind = "absent" THEN rootMtime + 1 ELSE rootMtime
    /\ written' = Append(written,
                         [recs |-> file.recs, env |-> <<catalog, fs>>,
                          mtimeBefore |-> rootMtime, mtimeAfter |-> rootMtime'])

\* A failed write leaves the file as it was, or cut short
WriteFails(store) ==
    /\ NewFails("write", store)
    /\ \/ UNCHANGED <<mdFile, rootMtime>>
       \/ /\ mdFile' = File("corrupt")
          /\ rootMtime' = IF mdFile.kind = "absent" THEN rootMtime + 1 ELSE rootMtime

\* A readMDfile that saves what the loop has built before it returns the
\* iteration error
SaveThenRowsErr(store) ==
    /\ NewFails("rows", store)
    /\ \E order \in Orders(DOMAIN store) : mdFile' = WriteMDfile(store, order)
    /\ rootMtime' = IF mdFile.kind = "absent" THEN rootMtime + 1 ELSE rootMtime

\* device.go, readMDfile lines 361-364: bkRows.Err() is returned, nothing saved
ReturnRowsErr(store) ==
    /\ NewFails("rows", store)
    /\ UNCHANGED <<mdFile, rootMtime>>

\* device.go: Kobo.readMDfile, as New runs it
readMDfile ==
    LET ld == ReadJSON(mdFile)
        koboMD == ld.val
        rows == QueryRows
    IN  IF LoadFails(ld)
        THEN NewFails("load", <<>>) /\ UNCHANGED <<mdFile, rootMtime>>
        ELSE \/ NewFails("query", <<>>) /\ UNCHANGED <<mdFile, rootMtime>>
             \/ \E done \in (SUBSET rows) \ {rows} :
                    /\ NewFails("scan", StoreOf(done, koboMD))
                    /\ UNCHANGED <<mdFile, rootMtime>>
             \/ \E done \in SUBSET rows : ReturnRowsErr(StoreOf(done, koboMD))
             \/ WriteFails(StoreOf(rows, koboMD))
             \/ \E order \in Orders({row.ContentID : row \in rows}) :
                    NewSucceeds(StoreOf(rows, koboMD),
                                WriteMDfile(StoreOf(rows, koboMD), order))

\* main.go, readMDfile lines 328-340: reading and parsing the file
ku_Load ==
    CASE mdFile.kind \in {"absent", "empty"} -> [err |-> FALSE, val |-> <<>>]
      [] mdFile.kind = "json" -> [err |-> FALSE, val |-> mdFile.recs]
      [] OTHER -> [err |-> TRUE, val |-> <<>>]

\* main.go: KoboUncaged.readMDfile, as New runs it
ku_readMDfile ==
    LET ld == ku_Load
        koboMD == ld.val
        map == ku_CachedLoop(<<>>, koboMD)
        rows == ku_QueryRows
        bad == ku_FailingRows(map)
    IN  IF ld.err
        THEN NewFails("load", <<>>) /\ UNCHANGED <<mdFile, rootMtime>>
        ELSE \/ NewFails("query", <<>>) /\ UNCHANGED <<mdFile, rootMtime>>
             \/ \E n \in 0..(Len(koboMD) - 1) :
                    /\ NewFails("scan", ku_CachedLoop(<<>>, SubSeq(koboMD, 1, n)))
                    /\ UNCHANGED <<mdFile, rootMtime>>
             \/ \E done \in (SUBSET (rows \ bad)) \ {rows} :
                    /\ NewFails("scan", ku_StoreOf(map, done))
                    /\ UNCHANGED <<mdFile, rootMtime>>
             \/ /\ bad # {}
                /\ \E done \in SUBSET (rows \ bad) :
                       /\ NewFails("container", ku_StoreOf(map, done))
                       /\ UNCHANGED <<mdFile, rootMtime>>
             \/ /\ bad = {}
                /\ \/ \E done \in SUBSET rows :
                          /\ NewFails("rows", ku_StoreOf(map, done))
                          /\ UNCHANGED <<mdFile, rootMtime>>
                   \/ WriteFails(ku_StoreOf(map, rows))
                   \/ \E order \in Orders(DOMAIN ku_StoreOf(map, rows)) :
                          NewSucceeds(ku_StoreOf(map, rows),
                                      writeMDfile(ku_StoreOf(map, rows), order))

(* Device lookup: .kobo/version and driveinfo.calibre *)

\* .kobo/version: comma-separated fields; the third is the firmware version
\* (its dot-separated parts), the last is the model identifier
Version(fields) == [kind |-> "text", fields |-> fields]
VersForma == Version(<<"N000", "3.0.35", <<4, 13, 1>>, "3.0.35", "3.0.35", "forma">>)
VersUnknown == Version(<<"N000", "3.0.35", <<4, 13, 1>>, "3.0.35", "3.0.35", "zzz">>)
VersShort == Version(<<"N000", "zzz">>)
VersFiles ==
    {[kind |-> "absent", fields |-> <<>>], [kind |-> "empty", fields |-> <<>>],
     VersForma, VersUnknown, VersShort}

\* getKoboInfo (both programs) up to the assignment of the model identifier:
\* a read error is returned; versFields[2] and fw[i] are unchecked indexings
getKoboInfo ==
    CASE versFile.kind = "absent" -> [out |-> "err", Device |-> ""]
      [] versFile.kind = "empty" -> [out |-> "nil", Device |-> ""]
      [] Len(versFile.fields) < 3 -> [out |-> "panic", Device |-> ""]
      [] Len(versFile.fields[3]) > 3 -> [out |-> "panic", Device |-> ""]
      [] OTHER -> [out |-> "nil",
                   Device |-> versFile.fields[Len(versFile.fields)]]

\* main.go, getKoboInfo: the cover sizes of the model
ku_coverDetails(model) ==
    CASE model = "glo" ->
             [fullCover |-> <<758, 1024>>, libFull |-> <<355, 479>>,
              libGrid |-> <<149, 201>>]
      [] model = "forma" ->
             [fullCover |-> <<1440, 1920>>, libFull |-> <<355, 473>>,
              libGrid |-> <<149, 198>>]
      [] OTHER ->
             [fullCover |-> <<600, 800>>, libFull |-> <<355, 473>>,
              libGrid |-> <<149, 198>>]

\* main.go, getKoboInfo: the name of the model
ku_modelName(model) ==
    CASE model = "glo" -> "Glo"
      [] model = "forma" -> "Forma"
      [] OTHER -> "Unknown Kobo"

\* device.go: k.Device.Model(), kept as a term of the identifier
Model(d) == <<"Model", d>>

ZeroDevInfo == [LocationCode |-> "", DeviceName |-> <<>>, DeviceStoreUUID |-> 0]

\* A device-info file that an earlier session saved
StoredDevInfo ==
    [kind |-> "json",
     recs |-> [LocationCode |-> "main", DeviceName |-> <<"Kobo ", "stored">>,
               DeviceStoreUUID |-> 99]]

DevInfoFiles ==
    {[kind |-> "absent", recs |-> ZeroDevInfo],
     [kind |-> "empty", recs |-> ZeroDevInfo],
     [kind |-> "corrupt", recs |-> ZeroDevInfo], StoredDevInfo}

\* uuid.NewV4(): an identifier that was never generated before
NewV4 == uuids + 1

\* device.go: Kobo.loadDeviceInfo
loadDeviceInfo(device) ==
    LET ld == ReadJSON(diFile)
    IN  IF ld.emptyOrNotExist
        THEN [err |-> FALSE, generated |-> TRUE,
              DevInfo |-> [LocationCode |-> "main",
                           DeviceName |-> <<"Kobo ", Model(device)>>,
                           DeviceStoreUUID |-> NewV4]]
        ELSE IF ld.err
        THEN [err |-> TRUE, generated |-> FALSE, DevInfo |-> ZeroDevInfo]
        ELSE [err |-> FALSE, generated |-> FALSE, DevInfo |-> ld.val]

\* main.go: KoboUncaged.loadDeviceInfo
ku_loadDeviceInfo(model) ==
    CASE diFile.kind = "absent" ->
             [err |-> FALSE, generated |-> TRUE,
              DevInfo |-> [LocationCode |-> "main",
                           DeviceName |-> <<"Kobo ", ku_modelName(model)>>,
                           DeviceStoreUUID |-> NewV4]]
      [] diFile.kind = "empty" ->
             [err |-> FALSE, generated |-> FALSE, DevInfo |-> ZeroDevInfo]
      [] diFile.kind = "json" ->
             [err |-> FALSE, generated |-> FALSE, DevInfo |-> diFile.recs]
      [] OTHER -> [err |-> TRUE, generated |-> FALSE, DevInfo |-> ZeroDevInfo]

\* No session object: New returned before loadDeviceInfo had an effect
NoDevice(device) ==
    /\ Device' = device
    /\ driveInfo' = ZeroDevInfo
    /\ uuids' = uuids

\* New, from getKoboInfo on: lines 100-117 of device.go, 110-125 of main.go
NewLooksUp ==
    LET ki == getKoboInfo
        di == IF impl = "device" THEN loadDeviceInfo(ki.Device)
              ELSE ku_loadDeviceInfo(ki.Device)
    IN  CASE ki.out = "err" ->
                 /\ NewFails("version", <<>>)
                 /\ NoDevice("")
                 /\ UNCHANGED <<mdFile, rootMtime>>
          [] ki.out = "panic" ->
                 /\ NewFails("panic", <<>>)
                 /\ NoDevice("")
                 /\ UNCHANGED <<mdFile, rootMtime>>
          [] OTHER ->
                 IF di.err
                 THEN /\ NewFails("devinfo", <<>>)
                      /\ NoDevice(ki.Device)
                      /\ UNCHANGED <<mdFile, rootMtime>>
                 ELSE /\ Device' = ki.Device
                      /\ driveInfo' = di.DevInfo
                      /\ uuids' = IF di.generated THEN NewV4 ELSE uuids
                      /\ \/ impl = "device" /\ readMDfile
                         \/ impl = "main" /\ ku_readMDfile

\* device.go: newUncagedPassword(passwordList)
newUncagedPassword(passwordList) ==
    [passwordList |-> passwordList, currPassIndex |-> 0]

\* New (both programs): open the catalog, then read and reconcile
New ==
    /\ pc \in {"off", "failed", "closed", "crashed"}
    /\ sessions < MaxSessions
    /\ sessions' = sessions + 1
    /\ mdAtStart' = mdFile
    /\ wg' = 0
    /\ units' = NoUnits
    /\ \/ /\ NewFails("open", <<>>)
          /\ NoDevice("")
          /\ UNCHANGED <<mdFile, rootMtime>>
       \/ NewLooksUp
    /\ updatedMetadata' = <<>>
    /\ Passwords' = IF impl = "device"
                    THEN newUncagedPassword(Passwords.passwordList)
                    ELSE Passwords
    /\ UNCHANGED <<contentIDprefix, mapKind, mapTrace, impl, catalog, fs,
                   covers, genLevel, updatingMD, updFile, ret, ops, versFile,
                   diFile, sent>>

----------------------------------------------------------------------------
(* device.go: the thumbnail units and Close *)

\* A selection that takes every target at every level
coverEndingsAlways == <<"fullCover", "libFull", "libGrid">>

\* SaveCoverImage, lines 440-446: the targets that the generation level selects
coverEndings ==
    CASE genLevel = "all" -> <<"fullCover", "libFull", "libGrid">>
      [] genLevel = "partial" -> <<"libFull", "libGrid">>
      [] OTHER -> <<>>

Alive == pc \in {"ready", "closing", "closed"}

sessionVars == <<contentIDprefix, mapKind, mapTrace, impl, devVars, catalog, fs,
                 rootMtime, mdFile, err, MetadataMap, sessions, mdAtStart,
                 written, genLevel, opVars>>

\* The caller: k.Wg.Add(1), then go k.SaveCoverImage(...)
ScheduleCover ==
    /\ pc = "ready"
    /\ \E u \in 1..MaxUnits :
          /\ units[u].pc = "none"
          /\ \A v \in 1..(u - 1) : units[v].pc # "none"
          /\ units' = [units EXCEPT ![u].pc = "decode"]
    /\ wg' = wg + 1
    /\ UNCHANGED <<sessionVars, pc, nickelDB, covers>>

\* SaveCoverImage, lines 425-430: image.Decode; on an error, log and return;
\* sz is the size of the decoded image
UnitDecode(u) ==
    /\ Alive
    /\ units[u].pc = "decode"
    /\ \/ /\ \E c \in sent :
                units' = [units EXCEPT ![u] = [pc |-> "loop", img |-> c.img,
                                               sz |-> c.sz, isz |-> c.sz,
                                               next |-> 1, errs |-> FALSE]]
          /\ UNCHANGED wg
       \/ /\ units' = [units EXCEPT ![u] = [NoImage EXCEPT !.pc = "done",
                                                           !.errs = TRUE]]
          /\ wg' = wg - 1
    /\ UNCHANGED <<sessionVars, pc, nickelDB, covers>>

\* cover.Resize(k.Device, sz): the size computed for the target from the
\* device profile and the size of the source; a size is named after the
\* target that computes it, and "odd" is a size that no target computes
Resize(cover, sz) == cover

\* SaveCoverImage, lines 453-460: the image of one pass, the type and the
\* size of nimg: img itself when sz is the target size already, otherwise a
\* new YCbCr image of the target size that rez.Convert fills
Resample(unit, cover) ==
    IF unit.sz = Resize(cover, unit.sz)
    THEN [img |-> unit.img, isz |-> unit.isz]
    ELSE [img |-> "YCbCr", isz |-> Resize(cover, unit.sz)]

\* SaveCoverImage, lines 462-465: the resized library-full image becomes the
\* source of the later targets; sz stays the size of the decoded image
NextSource(unit, cover) ==
    IF cover = "libFull"
    THEN [unit EXCEPT !.img = Resample(unit, cover).img,
                      !.isz = Resample(unit, cover).isz,
                      !.next = @ + 1]
    ELSE [unit EXCEPT !.next = @ + 1]

\* SaveCoverImage, lines 447-483: one pass of the loop over coverEndings
UnitTarget(u) ==
    /\ Alive
    /\ units[u].pc = "loop"
    /\ units[u].next <= Len(coverEndings)
    /\ LET cover == coverEndings[units[u].next]
           resized == units[u].sz # Resize(cover, units[u].sz)
           nimg == Resample(units[u], cover)
       IN  \/ \* the image is resized, or is taken as it is, and written
              /\ resized => units[u].img = "YCbCr"
              /\ covers' = covers \cup {<<u, cover, "whole", nimg.isz>>}
              /\ units' = [units EXCEPT ![u] = NextSource(@, cover)]
              /\ UNCHANGED wg
           \/ \* MkdirAll or OpenFile fails: log, continue
              /\ resized => units[u].img = "YCbCr"
              /\ units' = [units EXCEPT ![u] =
                              [NextSource(@, cover) EXCEPT !.errs = TRUE]]
              /\ UNCHANGED <<wg, covers>>
           \/ \* jpeg.Encode fails on the opened file: log
              /\ resized => units[u].img = "YCbCr"
              /\ covers' = covers \cup {<<u, cover, "partial", nimg.isz>>}
              /\ units' = [units EXCEPT ![u] =
                              [NextSource(@, cover) EXCEPT !.errs = TRUE]]
              /\ UNCHANGED wg
           \/ \* img.(*image.YCbCr) on another image type: the goroutine
              \* panics, and its deferred Wg.Done runs
              /\ resized
              /\ units[u].img # "YCbCr"
              /\ units' = [units EXCEPT ![u].pc = "panicked"]
              /\ wg' = wg - 1
              /\ UNCHANGED covers
    /\ UNCHANGED <<sessionVars, pc, nickelDB>>

\* A unit that closes the catalog connection when it returns
UnitReturnClosing(u) ==
    /\ Alive
    /\ units[u].pc = "loop"
    /\ units[u].next > Len(coverEndings)
    /\ units' = [units EXCEPT ![u] = [NoImage EXCEPT !.pc = "done",
                                                     !.errs = units[u].errs]]
    /\ wg' = wg - 1
    /\ nickelDB' = "closed"
    /\ UNCHANGED <<sessionVars, pc, covers>>

\* SaveCoverImage returns: the deferred k.Wg.Done()
UnitReturn(u) ==
    /\ Alive
    /\ units[u].pc = "loop"
    /\ units[u].next > Len(coverEndings)
    /\ units' = [units EXCEPT ![u] = [NoImage EXCEPT !.pc = "done",
                                                     !.errs = units[u].errs]]
    /\ wg' = wg - 1
    /\ UNCHANGED <<sessionVars, pc, nickelDB, covers>>

\* An unrecovered panic ends the process
ProcessExit ==
    /\ Alive
    /\ \E u \in 1..MaxUnits : units[u].pc = "panicked"
    /\ pc' = "crashed"
    /\ UNCHANGED <<sessionVars, nickelDB, wg, units, covers>>

\* Close is called: line 525
CloseBegin ==
    /\ impl = "device"
    /\ pc = "ready"
    /\ pc' = "closing"
    /\ UNCHANGED <<sessionVars, nickelDB, wg, units, covers>>

\* A Close that does not wait for the units
CloseNoWait ==
    /\ pc = "closing"
    /\ pc' = "closed"
    /\ nickelDB' = "closed"
    /\ UNCHANGED <<sessionVars, wg, units, covers>>

\* Close, lines 526-528: k.Wg.Wait() returns, then the catalog is closed
Close ==
    /\ pc = "closing"
    /\ wg = 0
    /\ pc' = "closed"
    /\ nickelDB' = "closed"
    /\ UNCHANGED <<sessionVars, wg, units, covers>>

\* main.go: mainWithErrCode returns after cc.Start()
ku_Exit ==
    /\ impl = "main"
    /\ pc = "ready"
    /\ pc' = "closed"
    /\ UNCHANGED <<sessionVars, nickelDB, wg, units, covers>>

\* main.go: mainWithErrCode after New returned nil and an error. The defer
\* statement of line 664 evaluates ku.kup with ku nil before err is looked
\* at: a nil pointer dereference, which no recover catches, so the process
\* ends with the panic (exit status 2) and mainWithErrCode returns no code.
ku_NewFailed ==
    /\ impl = "main"
    /\ pc = "failed"
    /\ pc' = "crashed"
    /\ ret' = [op |-> "mainWithErrCode", code |-> "panic", started |-> FALSE]
    /\ UNCHANGED <<contentIDprefix, idVars, impl, devVars, envVars, err, MetadataMap,
                   nickelDB, thumbVars, sessions, mdAtStart, written,
                   updatingMD, updFile, updatedMetadata, UpdatedMetadata, ops>>

\* The device info that Calibre sends back: what it was given, or that with
\* the name the user chose
SentDevInfo == {driveInfo, [driveInfo EXCEPT !.DeviceName = <<"renamed">>]}

\* main.go: SetDeviceInfo(devInfo); what saveDeviceInfo returns is discarded
ku_SetDeviceInfo ==
    /\ impl = "main"
    /\ pc = "ready"
    /\ \E devInfo \in SentDevInfo :
          /\ driveInfo' = devInfo
          /\ diFile' = [kind |-> "json", recs |-> devInfo]
    /\ UNCHANGED <<contentIDprefix, idVars, impl, envVars, pc, err, MetadataMap,
                   nickelDB, thumbVars, sessions, mdAtStart, written, opVars,
                   versFile, Device, uuids, sent,
                   Passwords>>

\* device.go: SaveDeviceInfo()
SaveDeviceInfo ==
    /\ impl = "device"
    /\ pc = "ready"
    /\ \/ diFile' = diFile
       \/ diFile' = [kind |-> "json", recs |-> driveInfo]
    /\ UNCHANGED <<contentIDprefix, idVars, impl, envVars, pc, err, MetadataMap,
                   nickelDB, thumbVars, sessions, mdAtStart, written, opVars,
                   versFile, Device, driveInfo, uuids,
                   sent, Passwords>>

----------------------------------------------------------------------------
(* main.go: the calls the protocol session makes on a KoboUncaged.         *)
(* ioutil.WriteFile is taken to succeed in these calls: the callers       *)
(* discard what writeMDfile and writeUpdateMDfile return.                  *)

\* Metadata that Calibre sends with a book, decoded into a KoboMetadata
SentA1 ==
    [CreateKoboMetadata EXCEPT !.Lpath = FileA, !.Title = "A (sent)",
                               !.UUID = "sent-a"]
SentA2 == [SentA1 EXCEPT !.Title = "A (sent again)"]
SentN ==
    [CreateKoboMetadata EXCEPT !.Lpath = <<"n", ".kepub">>,
                               !.Title = "N (sent)", !.UUID = "sent-n"]

SentMetadata == {SentA1, SentA2, SentN}

\* The lists that Calibre gives to UpdateMetadata
SentLists == {<<>>, <<SentA1>>, <<SentA1, SentA2>>, <<SentN, SentA2>>}

\* The start offsets that Calibre gives to GetBook
FilePositions == {0, 1}

\* The paths of the book identifiers that Calibre asks about
BookLpaths == {FileA, <<"n", ".kepub">>, <<"x", ".epub">>}

\* filepath.Ext on the paths of the model
Ext(lpath) ==
    IF lpath # <<>> /\ lpath[Len(lpath)] \in {".epub", ".kepub", ".pdf", ".jpg"}
    THEN lpath[Len(lpath)] ELSE ""

\* An update set in which the first record of an identifier stays
ku_accumulateOnce(maps, cID, koboMD) ==
    [store |-> MapPut(maps.store, cID, koboMD),
     updated |-> IF cID \in DOMAIN maps.updated THEN maps.updated
                 ELSE MapPut(maps.updated, cID, koboMD)]

\* ku.metadataMap[cID] = koboMD; ku.updatedMetadata[cID] = koboMD
ku_accumulate(maps, cID, koboMD) ==
    [store |-> MapPut(maps.store, cID, koboMD),
     updated |-> MapPut(maps.updated, cID, koboMD)]

\* writeUpdateMDfile: as writeMDfile, and only for a non-empty update set
writeUpdateMDfile(updated, order) ==
    IF Cardinality(DOMAIN updated) > 0
    THEN WriteJSON([n \in 1..Len(order) |-> ZeroMetadata]
                   \o [n \in 1..Len(order) |-> updated[order[n]]])
    ELSE updFile

\* A flush that writes the side-cache file alone
ku_FlushStoreOnly(maps) ==
    /\ \E order \in Orders(DOMAIN maps.store) :
          mdFile' = writeMDfile(maps.store, order)
    /\ updFile' = updFile

\* ku.writeMDfile(); ku.writeUpdateMDfile()
ku_Flush(maps) ==
    /\ \E order \in Orders(DOMAIN maps.store) :
          mdFile' = writeMDfile(maps.store, order)
    /\ \E order \in Orders(DOMAIN maps.updated) :
          updFile' = writeUpdateMDfile(maps.updated, order)

\* A collaborator call is made on the session that New returned
ku_Called ==
    /\ impl = "main"
    /\ pc = "ready"
    /\ ops < MaxOps
    /\ ops' = ops + 1

\* A SaveBook that records the book before it opens the book file
ku_SaveBookFailsLate(maps, koboMD, lastBook) ==
    /\ ret' = [op |-> "SaveBook", err |-> TRUE, md |-> koboMD,
               lastBook |-> lastBook, book |-> None]
    /\ MetadataMap' = maps.store
    /\ updatedMetadata' = maps.updated
    /\ IF lastBook THEN ku_Flush(maps) ELSE UNCHANGED <<mdFile, updFile>>
    /\ UNCHANGED <<fs, rootMtime>>

\* SaveBook: os.MkdirAll or os.OpenFile fails: return nil, err
ku_SaveBookFails(maps, koboMD, lastBook) ==
    /\ ret' = [op |-> "SaveBook", err |-> TRUE, md |-> koboMD,
               lastBook |-> lastBook, book |-> None]
    /\ UNCHANGED <<MetadataMap, updatedMetadata, mdFile, updFile, fs,
                   rootMtime>>

\* SaveBook(md, lastBook)
ku_SaveBook ==
    /\ ku_Called
    /\ \E koboMD \in SentMetadata, lastBook \in BOOLEAN :
          LET cID == lpathToContentID(koboMD.Lpath)
              bkPath == contentIDtoBkPath(cID)
              maps == ku_accumulate([store |-> MetadataMap,
                                     updated |-> updatedMetadata], cID, koboMD)
          IN  \/ ku_SaveBookFails(maps, koboMD, lastBook)
              \/ /\ ret' = [op |-> "SaveBook", err |-> FALSE, md |-> koboMD,
                            lastBook |-> lastBook, book |-> Some(bkPath)]
                 /\ fs' = IF bkPath \in DOMAIN fs THEN fs
                          ELSE MapPut(fs, bkPath, "new")
                 /\ rootMtime' = IF bkPath \in DOMAIN fs THEN rootMtime
                                 ELSE rootMtime + 1
                 /\ MetadataMap' = maps.store
                 /\ updatedMetadata' = maps.updated
                 /\ IF lastBook THEN ku_Flush(maps)
                    ELSE UNCHANGED <<mdFile, updFile>>
    /\ UNCHANGED <<contentIDprefix, idVars, impl, devVars, catalog, pc, err, nickelDB,
                   thumbVars, sessions, mdAtStart, written, updatingMD,
                   UpdatedMetadata>>

\* The loop of UpdateMetadata over mdList
RECURSIVE ku_accumulateAll(_, _)
ku_accumulateAll(maps, mdList) ==
    IF mdList = <<>> THEN maps
    ELSE ku_accumulateAll(ku_accumulate(maps,
                                        lpathToContentID(Head(mdList).Lpath),
                                        Head(mdList)),
                          Tail(mdList))

\* UpdateMetadata(mdList)
ku_UpdateMetadata ==
    /\ ku_Called
    /\ \E mdList \in SentLists :
          LET maps == ku_accumulateAll([store |-> MetadataMap,
                                        updated |-> updatedMetadata], mdList)
          IN  /\ ret' = [op |-> "UpdateMetadata", err |-> FALSE, mdList |-> mdList]
              /\ MetadataMap' = maps.store
              /\ updatedMetadata' = maps.updated
              /\ ku_Flush(maps)
    /\ UNCHANGED <<contentIDprefix, idVars, impl, devVars, catalog, fs, rootMtime, pc,
                   err, nickelDB, thumbVars, sessions, mdAtStart, written,
                   updatingMD, UpdatedMetadata>>

\* GetDeviceBookList()
GetDeviceBookList ==
    {[UUID |-> md.UUID, Lpath |-> md.Lpath, LastModified |-> md.LastModified,
      Extension |-> Ext(md.Lpath)] : md \in Range(MetadataMap)}

\* GetMetadataList(books) for an empty list: every record of the map
GetMetadataList == Range(MetadataMap)

\* DeleteBook(book): return nil
ku_DeleteBook ==
    /\ ku_Called
    /\ \E lpath \in BookLpaths :
          ret' = [op |-> "DeleteBook", err |-> FALSE, lpath |-> lpath]
    /\ UNCHANGED <<contentIDprefix, idVars, impl, devVars, envVars, pc, err,
                   MetadataMap, nickelDB, thumbVars, sessions, mdAtStart,
                   written, updatingMD, updFile, updatedMetadata,
                   UpdatedMetadata>>

\* GetBook(book, filePos)
ku_GetBook ==
    /\ ku_Called
    /\ \E lpath \in BookLpaths, filePos \in FilePositions :
          LET cID == lpathToContentID(lpath)
              bkPath == contentIDtoBkPath(cID)
              fi == Stat(bkPath)
          IN  IF ~fi.ok
              THEN ret' = [op |-> "GetBook", err |-> TRUE, lpath |-> lpath,
                           filePos |-> filePos, ebook |-> None, bookLen |-> 0]
              ELSE \/ \* os.OpenFile fails: return ebook, bookLen, err
                      ret' = [op |-> "GetBook", err |-> TRUE, lpath |-> lpath,
                              filePos |-> filePos, ebook |-> None,
                              bookLen |-> fi.Size]
                   \/ \* the file, opened for reading: its offset is 0
                      ret' = [op |-> "GetBook", err |-> FALSE, lpath |-> lpath,
                              filePos |-> filePos,
                              ebook |-> Some([path |-> bkPath, offset |-> 0]),
                              bookLen |-> fi.Size]
    /\ UNCHANGED <<contentIDprefix, idVars, impl, devVars, envVars, pc, err,
                   MetadataMap, nickelDB, thumbVars, sessions, mdAtStart,
                   written, updatingMD, updFile, updatedMetadata,
                   UpdatedMetadata>>

----------------------------------------------------------------------------
(* device.go: the calls made on a Kobo between New and Close. Their        *)
(* callers are not among the sources; section 5 of the specification has   *)
(* the write-back consumer call UpdateNickelDB at the start of a session.  *)
(* os.Remove is taken to succeed: the deferred call discards its error.    *)

\* strconv.FormatFloat(x, 'f', -1, 64) on the values of the model (tenths)
FormatFloat(val) ==
    CASE val = 25 -> "2.5"
      [] val = 10 -> "1"
      [] OTHER -> "0"

\* k.MetadataMap[cid]: the zero record when cid is no key of the map
MetadataOf(cid) ==
    IF cid \in DOMAIN MetadataMap THEN MetadataMap[cid] ELSE ZeroMetadata

\* x != nil && *x != "": a text of tokens (Comments), a name (Series)
NonEmptyText(opt) == opt # None /\ opt[1] # <<>>
NonEmptyName(opt) == opt # None /\ opt[1] # ""

\* An update keyed by the front of the identifier: the chapters of a book
\* are written with the book
UpdateRowLike(row, cid) ==
    LET md == MetadataOf(cid)
    IN  IF ~HasPrefix(row.ContentID, cid) THEN row
        ELSE [row EXCEPT
                 !.Description = IF NonEmptyText(md.Comments) THEN md.Comments
                                 ELSE None]

\* UPDATE content SET Description=?, Series=?, SeriesNumber=?,
\* SeriesNumberFloat=? WHERE ContentID=?
UpdateRow(row, cid) ==
    LET md == MetadataOf(cid)
        indexed == md.SeriesIndex # None /\ md.SeriesIndex[1] # 0
    IN  IF row.ContentID # cid THEN row
        ELSE [row EXCEPT
                 !.Description = IF NonEmptyText(md.Comments) THEN md.Comments ELSE None,
                 !.Series = IF NonEmptyName(md.Series) THEN md.Series ELSE None,
                 !.SeriesNumber = IF indexed
                                  THEN Some(FormatFloat(md.SeriesIndex[1]))
                                  ELSE None,
                 !.SeriesNumberFloat = IF indexed THEN md.SeriesIndex ELSE None]

\* The loop over k.UpdatedMetadata from entry n on; the Exec of the entries
\* in failed returns an error, which is logged
RECURSIVE UpdateRows(_, _, _)
UpdateRows(rows, n, failed) ==
    IF n > Len(UpdatedMetadata) THEN rows
    ELSE UpdateRows(IF n \in failed THEN rows
                    ELSE {UpdateRow(row, UpdatedMetadata[n]) : row \in rows},
                    n + 1, failed)

\* A removal that is skipped when the write-back returns an error
RemoveUnlessError(e) == IF e THEN updFile ELSE File("absent")

\* defer os.Remove(filepath.Join(k.BKRootDir, kuUpdatedMDfile))
DeferredRemove(e) == File("absent")

\* A call is made on the Kobo that New returned
Called ==
    /\ impl = "device"
    /\ pc = "ready"
    /\ ops < MaxOps
    /\ ops' = ops + 1

\* UpdateNickelDB()
UpdateNickelDB ==
    /\ Called
    /\ \/ \* k.nickelDB.Prepare fails: return err
          /\ ret' = [op |-> "UpdateNickelDB", err |-> TRUE, failed |-> {}]
          /\ catalog' = catalog
          /\ updFile' = DeferredRemove(TRUE)
       \/ \E failed \in SUBSET (1..Len(UpdatedMetadata)) :
             /\ ret' = [op |-> "UpdateNickelDB", err |-> FALSE,
                        failed |-> failed]
             /\ catalog' = UpdateRows(catalog, 1, failed)
             /\ updFile' = DeferredRemove(FALSE)
    /\ UNCHANGED <<contentIDprefix, idVars, impl, devVars, fs, rootMtime, mdFile, pc,
                   err, MetadataMap, nickelDB, thumbVars, sessions, mdAtStart,
                   written, updatingMD, updatedMetadata, UpdatedMetadata>>

\* The identifiers and lengths that UpdateIfExists is called with
SavedIDs == {onboardPrefix \o FileA, onboardPrefix \o <<"x", ".epub">>}
SavedLens == {100, 150}

\* UPDATE content SET ___FileSize = ? WHERE ContentId = ? AND ContentType = 6
UpdateFileSize(rows, cID, len) ==
    {IF row.ContentID = cID /\ row.ContentType = 6
     THEN [row EXCEPT !.FileSize = len] ELSE row : row \in rows}

\* UpdateIfExists(cID, len)
UpdateIfExists ==
    /\ Called
    /\ \E cID \in SavedIDs, len \in SavedLens :
          LET found == {row \in catalog :
                           row.ContentID = cID /\ row.ContentType = 6}
              call == [op |-> "UpdateIfExists", cID |-> cID, len |-> len]
          IN  IF cID \notin DOMAIN MetadataMap
              THEN /\ ret' = call @@ [err |-> FALSE]
                   /\ catalog' = catalog
              ELSE \/ \* QueryRow(...).Scan fails, or finds no row
                      /\ ret' = call @@ [err |-> TRUE]
                      /\ catalog' = catalog
                   \/ /\ found # {}
                      /\ \E row \in found :
                            IF row.FileSize # len
                            THEN \/ \* Exec fails: return err
                                    /\ ret' = call @@ [err |-> TRUE]
                                    /\ catalog' = catalog
                                 \/ /\ ret' = call @@ [err |-> FALSE]
                                    /\ catalog' = UpdateFileSize(catalog, cID, len)
                            ELSE /\ ret' = call @@ [err |-> FALSE]
                                 /\ catalog' = catalog
    /\ UNCHANGED <<contentIDprefix, idVars, impl, devVars, fs, rootMtime, mdFile, pc,
                   err, MetadataMap, nickelDB, thumbVars, sessions, mdAtStart,
                   written, updatingMD, updFile, updatedMetadata,
                   UpdatedMetadata>>

\* WriteUpdateMDfile()
WriteUpdateMDfile ==
    /\ Called
    /\ IF Len(UpdatedMetadata) = 0
       THEN /\ ret' = [op |-> "WriteUpdateMDfile", err |-> FALSE]
            /\ updFile' = updFile
       ELSE \/ \* util.WriteJSON fails: return its error
               /\ ret' = [op |-> "WriteUpdateMDfile", err |-> TRUE]
               /\ updFile' = updFile
            \/ /\ ret' = [op |-> "WriteUpdateMDfile", err |-> FALSE]
               /\ updFile' = WriteJSON(UpdatedMetadata)
    /\ UNCHANGED <<contentIDprefix, idVars, impl, devVars, catalog, fs, rootMtime,
                   mdFile, pc, err, MetadataMap, nickelDB, thumbVars, sessions,
                   mdAtStart, written, updatingMD, updatedMetadata,
                   UpdatedMetadata>>

----------------------------------------------------------------------------
(* The identity mapper, applied to a string and then to its own result *)

MapTokens == {"Foo", "/", ".kepub", ".epub"}

MapPaths == SeqsUpTo(MapTokens, MaxMapLen)

MapInputs(kind) ==
    IF kind = "lpath" THEN MapPaths
    ELSE MapPaths \cup {onboardPrefix \o q : q \in MapPaths}
                  \cup {sdPrefix \o q : q \in MapPaths}

\* What the last string of the run is: kinds alternate from mapKind
MapKindAt(n) ==
    IF n % 2 = 1 THEN mapKind
    ELSE IF mapKind = "lpath" THEN "cid" ELSE "lpath"

MapToContentID ==
    /\ Len(mapTrace) \in 1..2
    /\ MapKindAt(Len(mapTrace)) = "lpath"
    /\ mapTrace' = Append(mapTrace, lpathToContentID(mapTrace[Len(mapTrace)]))
    /\ UNCHANGED <<contentIDprefix, mapKind, impl, devVars, envVars, pc, err,
                   MetadataMap, nickelDB, thumbVars, sessions, mdAtStart, written,
                   opVars>>

MapToLpath ==
    /\ Len(mapTrace) \in 1..2
    /\ MapKindAt(Len(mapTrace)) = "cid"
    /\ mapTrace' = Append(mapTrace, contentIDtoLpath(mapTrace[Len(mapTrace)]))
    /\ UNCHANGED <<contentIDprefix, mapKind, impl, devVars, envVars, pc, err,
                   MetadataMap, nickelDB, thumbVars, sessions, mdAtStart, written,
                   opVars>>

----------------------------------------------------------------------------
(* Initial states and specifications *)

CachedA1 ==
    [CreateKoboMetadata EXCEPT !.Lpath = FileA, !.Title = "A (cached)",
                               !.UUID = "cached-a", !.Size = 100]
CachedA2 == [CachedA1 EXCEPT !.Title = "A (cached again)"]
CachedB ==
    [CreateKoboMetadata EXCEPT !.Lpath = <<"b", ".kepub">>,
                               !.Title = "B (cached)", !.UUID = "cached-b"]
CachedX ==
    [CreateKoboMetadata EXCEPT !.Lpath = <<"x", ".epub">>,
                               !.Title = "X (cached)", !.UUID = "cached-x"]

CachedRecords == {CachedA1, CachedA2, CachedB, CachedX}

InitialFiles ==
    {File("absent"), File("empty"), File("corrupt"), File("unreadable")}
        \cup {WriteJSON(q) : q \in SeqsUpTo(CachedRecords, MaxCacheLen)}

MapperIdle == mapKind = "lpath" /\ mapTrace = <<>>

\* No collaborator call yet, and no pending-update file
NoCalls == [op |-> "none"]

\* The covers of the books that Calibre sends: decoded, an image of the
\* type that the resize needs or of another one, of a size that no target
\* computes
CoversSent == {[img |-> "YCbCr", sz |-> "odd"], [img |-> "other", sz |-> "odd"]}

\* Covers that have the size of a target already
CoversSized ==
    {[img |-> i, sz |-> s] : i \in {"YCbCr", "other"},
                             s \in {"fullCover", "libFull", "libGrid"}}

\* The device is known and an earlier session saved its device info
DeviceKnown ==
    /\ versFile = VersForma
    /\ diFile = StoredDevInfo
    /\ Device = ""
    /\ driveInfo = ZeroDevInfo
    /\ uuids = 0
    /\ sent = CoversSent
    /\ Passwords = newUncagedPassword(<<>>)

OpsIdle ==
    /\ updatingMD = FALSE
    /\ updFile = File("absent")
    /\ updatedMetadata = <<>>
    /\ UpdatedMetadata = <<>>
    /\ ret = NoCalls
    /\ ops = 0

\* The session that New returned for that device
DeviceLoaded ==
    /\ versFile = VersForma
    /\ diFile = StoredDevInfo
    /\ Device = "forma"
    /\ driveInfo = StoredDevInfo.recs
    /\ uuids = 0
    /\ sent = CoversSent
    /\ Passwords = newUncagedPassword(<<>>)

ThumbsIdle == wg = 0 /\ units = NoUnits /\ covers = {}

\* Before the first session of either program
Init ==
    /\ contentIDprefix = onboardPrefix
    /\ MapperIdle
    /\ impl \in {"device", "main"}
    /\ catalog \in Catalogs
    /\ fs \in FileStates
    /\ rootMtime = 0
    /\ mdFile \in InitialFiles
    /\ pc = "off"
    /\ err = "nil"
    /\ MetadataMap = <<>>
    /\ nickelDB = "none"
    /\ ThumbsIdle
    /\ genLevel = "none"
    /\ sessions = 0
    /\ mdAtStart = mdFile
    /\ written = <<>>
    /\ OpsIdle
    /\ DeviceKnown

Next == New \/ CloseBegin \/ Close \/ ku_Exit

Spec == Init /\ [][Next]_vars

\* A session of device.go that New has just returned
ThumbInit ==
    /\ contentIDprefix = onboardPrefix
    /\ MapperIdle
    /\ impl = "device"
    /\ catalog = FixedRows
    /\ fs \in {f \in FileStates : \A x \in DOMAIN f : f[x] = "ok"}
    /\ rootMtime = 0
    /\ mdFile = WriteJSON(<<>>)
    /\ pc = "ready"
    /\ err = "nil"
    /\ MetadataMap = <<>>
    /\ nickelDB = "open"
    /\ ThumbsIdle
    /\ genLevel \in {"all", "partial", "none"}
    /\ sessions = 1
    /\ mdAtStart = mdFile
    /\ written = <<>>
    /\ OpsIdle
    /\ DeviceLoaded

ThumbNext ==
    \/ ScheduleCover
    \/ \E u \in 1..MaxUnits : UnitDecode(u) \/ UnitTarget(u) \/ UnitReturn(u)
    \/ ProcessExit
    \/ CloseBegin
    \/ Close

SpecThumb == ThumbInit /\ [][ThumbNext]_vars

\* One cover at a time, of any size: the units of the earlier covers have
\* returned, their images did not decode
CoverInit ==
    /\ contentIDprefix = onboardPrefix
    /\ MapperIdle
    /\ impl = "device"
    /\ catalog = FixedRows
    /\ fs \in {f \in FileStates : \A x \in DOMAIN f : f[x] = "ok"}
    /\ rootMtime = 0
    /\ mdFile = WriteJSON(<<>>)
    /\ pc = "ready"
    /\ err = "nil"
    /\ MetadataMap = <<>>
    /\ nickelDB = "open"
    /\ wg = 0
    /\ units = [u \in 1..MaxUnits |->
                   IF u = 1 THEN NoImage
                   ELSE [NoImage EXCEPT !.pc = "done", !.errs = TRUE]]
    /\ covers = {}
    /\ genLevel \in {"all", "partial", "none"}
    /\ sessions = 1
    /\ mdAtStart = mdFile
    /\ written = <<>>
    /\ OpsIdle
    /\ versFile = VersForma
    /\ diFile = StoredDevInfo
    /\ Device = "forma"
    /\ driveInfo = StoredDevInfo.recs
    /\ uuids = 0
    /\ sent = CoversSent \cup CoversSized
    /\ Passwords = newUncagedPassword(<<>>)

SpecCover == CoverInit /\ [][ThumbNext]_vars

\* The identity mapper of main.go alone
MapInit ==
    /\ contentIDprefix \in {onboardPrefix, sdPrefix}
    /\ mapKind \in {"lpath", "cid"}
    /\ mapTrace \in {<<q>> : q \in MapInputs(mapKind)}
    /\ impl = "main"
    /\ catalog = FixedRows
    /\ fs \in {f \in FileStates : \A x \in DOMAIN f : f[x] = "ok"}
    /\ rootMtime = 0
    /\ mdFile = File("absent")
    /\ pc = "off"
    /\ err = "nil"
    /\ MetadataMap = <<>>
    /\ nickelDB = "none"
    /\ ThumbsIdle
    /\ genLevel = "none"
    /\ sessions = 0
    /\ mdAtStart = mdFile
    /\ written = <<>>
    /\ OpsIdle
    /\ DeviceKnown

MapNext == MapToContentID \/ MapToLpath

SpecMap == MapInit /\ [][MapNext]_vars

----------------------------------------------------------------------------
(* Claims *)

\* A step that runs New
NewStep == sessions' # sessions

CidA == onboardPrefix \o FileA
CidB == onboardPrefix \o FileB
CidC == onboardPrefix \o FileC

\* C1: for every library-relative path p, contentIDtoLpath(lpathToContentID(p))
\* is p; a path that ends in ".kepub" gets ".epub" appended on the way.
C1_PathRoundTrip ==
    (mapKind = "lpath" /\ Len(mapTrace) = 3 /\ ~HasPrefix(mapTrace[1], <<"/">>))
        => /\ mapTrace[3] = mapTrace[1]
           /\ lpathIsKepub(mapTrace[1])
                  => mapTrace[2] = contentIDprefix \o mapTrace[1] \o <<".epub">>

\* C2: for every content identifier c made of the active storage prefix and
\* a library-relative path, lpathToContentID(contentIDtoLpath(c)) is c.
C2_IdentifierRoundTrip ==
    (/\ mapKind = "cid" /\ Len(mapTrace) = 3
     /\ HasPrefix(mapTrace[1], contentIDprefix)
     /\ ~HasPrefix(TrimPrefix(mapTrace[1], contentIDprefix), <<"/">>))
        => mapTrace[3] = mapTrace[1]

\* C3: after readMDfile succeeds, every key of the Metadata Store is the
\* identifier of a row that the existence query returns.
C3_AuthoritativePresence ==
    [][(NewStep /\ err' = "nil")
          => DOMAIN MetadataMap' \subseteq {row.ContentID : row \in QueryRows}]_vars

\* What C4 asks of a record made for a row that no cached record names
C4_Synthesized(row, md) ==
    LET bk == EpubOpen(ContentIDtoBkPath(row.ContentID, contentIDprefix))
        opened == row.MimeType \in {MimeEpub, MimeKepub} /\ ~bk.err
    IN  /\ md.Title = IF opened /\ Len(bk.opf.Title) > 0 THEN bk.opf.Title[1]
                      ELSE IF row.Title # None THEN row.Title[1] ELSE ""
        /\ md.Publisher = IF opened /\ Len(bk.opf.Publisher) > 0
                          THEN Some(bk.opf.Publisher[1]) ELSE row.Publisher
        /\ md.Lpath = IF opened THEN ContentIDtoLpath(row.ContentID, contentIDprefix)
                      ELSE <<>>
        /\ ~opened => md.Comments = row.Description /\ md.Series = row.Series
        /\ row.Attribution # None
              => /\ Len(md.Authors) >= 1
                 /\ \A i \in 1..Len(md.Authors) :
                        "," \notin Range(md.Authors[i])
                        /\ (md.Authors[i] # <<>> => md.Authors[i][1] # " ")

\* C4: after device.go's readMDfile succeeds, each returned row that cached
\* records name holds the last such record of the file, unaltered; each
\* other returned row holds a record made from its columns and its container.
C4_EnrichmentPrecedence ==
    [][(NewStep /\ impl = "device" /\ err' = "nil")
          => LET cache == IF mdFile.kind = "json" THEN mdFile.recs ELSE <<>>
             IN  \A row \in QueryRows :
                    LET cid == row.ContentID
                        hits == {n \in 1..Len(cache) : RecomputedID(cache[n]) = cid}
                    IN  /\ cid \in DOMAIN MetadataMap'
                        /\ IF hits # {}
                           THEN \E n \in hits :
                                   /\ \A m \in hits : m <= n
                                   /\ MetadataMap'[cid] = cache[n]
                           ELSE C4_Synthesized(row, MetadataMap'[cid])]_vars

\* C4 witness: two cached records named book A and the second was kept,
\* beside a record made for book C, which the cache did not hold
C4_Witness ==
    /\ impl = "device" /\ pc = "ready" /\ sessions = 1
    /\ mdAtStart = WriteJSON(<<CachedA1, CachedA2>>)
    /\ CidA \in DOMAIN MetadataMap /\ MetadataMap[CidA] = CachedA2
    /\ CidC \in DOMAIN MetadataMap /\ MetadataMap[CidC].Title = "C"

\* C5: two sessions in a row, with the catalog and the files unchanged
\* between them, save the same set of records.
C5_Idempotent ==
    (/\ Len(written) >= 2
     /\ written[1].env = written[2].env
     /\ written[1].mtimeAfter = written[2].mtimeBefore)
        => Range(written[1].recs) = Range(written[2].recs)

Running(u) == units[u].pc \in {"decode", "loop"}

\* C6: Close passes its wait only when every scheduled unit has returned,
\* the catalog is closed only after that, and no cover file is written once
\* Close has returned.
C6_ThumbnailBarrier ==
    /\ [](pc = "closed" => \A u \in 1..MaxUnits : ~Running(u))
    /\ [](nickelDB = "closed" => wg = 0 /\ \A u \in 1..MaxUnits : ~Running(u))
    /\ [][pc = "closed" => covers' = covers]_vars

\* C6 witness: every unit was scheduled, wrote covers and returned, and
\* Close has returned
C6_Witness ==
    /\ pc = "closed"
    /\ \A u \in 1..MaxUnits :
          units[u].pc = "done" /\ \E c \in covers : c[1] = u

\* C7: when the query, a scan or the iteration fails in device.go's
\* readMDfile, New returns no session and metadata.calibre is untouched.
C7_FatalPersistsNothing ==
    [][(NewStep /\ impl = "device" /\ err' \in {"query", "scan", "rows"})
          => /\ pc' = "failed"
             /\ nickelDB' = "none"
             /\ mdFile' = mdFile
             /\ written' = written]_vars

\* C7 witness: the iteration failed after a part of the store was rebuilt
C7_Witness ==
    /\ impl = "device" /\ pc = "failed" /\ err = "rows"
    /\ MetadataMap # <<>>
    /\ mdFile = mdAtStart /\ mdFile.kind = "json"

\* C8: a container or stat failure for a row never ends reconciliation: a
\* record is stored for every returned row.
C8_PerItemRecoverable ==
    /\ err # "container"
    /\ (pc = "ready" /\ impl = "device")
          => \A row \in QueryRows : row.ContentID \in DOMAIN MetadataMap
    /\ (pc = "ready" /\ impl = "main")
          => \A row \in ku_QueryRows : row.ContentID \in DOMAIN MetadataMap

\* C9: an absent or empty metadata.calibre is an empty cache and no error;
\* one that cannot be parsed or read ends the session and is left as it is.
C9_LoadOutcomes ==
    [][NewStep
          => /\ mdFile.kind \in {"absent", "empty"}
                   => /\ err' # "load"
                      /\ err' = "nil"
                            => DOMAIN MetadataMap' =
                                   {row.ContentID :
                                       row \in IF impl = "device" THEN QueryRows
                                               ELSE ku_QueryRows}
             /\ mdFile.kind \in {"corrupt", "unreadable"}
                   => /\ pc' = "failed"
                      /\ err' \in {"open", "load"}
                      /\ mdFile' = mdFile]_vars

\* C9 witness: a session ended on a file that could not be parsed
C9_Witness ==
    pc = "failed" /\ err = "load" /\ mdFile = File("corrupt") /\ sessions = 1

\* C10: a save writes each record of the in-memory map once and nothing else.
C10_SaveWritesStore ==
    [][(NewStep /\ err' = "nil")
          => /\ Len(mdFile'.recs) = Cardinality(DOMAIN MetadataMap')
             /\ Range(mdFile'.recs) = Range(MetadataMap')]_vars

(* The collaborator calls of both programs, on up to MaxSessions sessions *)

\* Pending-update files that a session of device.go may find
PendingFiles ==
    {File("absent"), File("corrupt"),
     WriteJSON(<<onboardPrefix \o FileA>>),
     WriteJSON(<<onboardPrefix \o FileA, onboardPrefix \o FileB>>),
     WriteJSON(<<sdPrefix \o <<"d", ".epub">>, onboardPrefix \o <<"x", ".epub">>>>)}

OpsInit ==
    /\ contentIDprefix = onboardPrefix
    /\ MapperIdle
    /\ impl \in {"device", "main"}
    /\ catalog = (IF impl = "device" THEN {RowA, RowB} ELSE {RowA}) \cup FixedRows
    /\ fs \in {f \in FileStates : \A x \in DOMAIN f : f[x] = "ok"}
    /\ rootMtime = 0
    /\ mdFile \in {File("absent"), File("corrupt")}
    /\ pc = "off"
    /\ err = "nil"
    /\ MetadataMap = <<>>
    /\ nickelDB = "none"
    /\ ThumbsIdle
    /\ genLevel = "none"
    /\ sessions = 0
    /\ mdAtStart = mdFile
    /\ written = <<>>
    /\ updatingMD \in (IF impl = "device" THEN BOOLEAN ELSE {FALSE})
    /\ updFile \in (IF impl = "device" THEN PendingFiles ELSE {File("absent")})
    /\ updatedMetadata = <<>>
    /\ UpdatedMetadata = <<>>
    /\ ret = NoCalls
    /\ ops = 0
    /\ DeviceKnown

OpsNext ==
    \/ New
    \/ ku_SaveBook
    \/ ku_UpdateMetadata
    \/ ku_DeleteBook
    \/ ku_GetBook
    \/ UpdateNickelDB
    \/ UpdateIfExists
    \/ WriteUpdateMDfile
    \/ CloseBegin
    \/ Close
    \/ ku_Exit
    \/ ku_NewFailed

SpecOps == OpsInit /\ [][OpsNext]_vars

\* device.go: the thumbnail units beside the operations of the main flow, in
\* the session that follows the earlier ones; a list of updated books is
\* pending, and the covers sent are of the usual kind
IsoInit ==
    /\ contentIDprefix = onboardPrefix
    /\ MapperIdle
    /\ impl = "device"
    /\ catalog = {RowA} \cup FixedRows
    /\ fs \in {f \in FileStates : \A x \in DOMAIN f : f[x] = "ok"}
    /\ rootMtime = 0
    /\ mdFile = File("absent")
    /\ pc = "closed"
    /\ err = "nil"
    /\ MetadataMap = <<>>
    /\ nickelDB = "closed"
    /\ ThumbsIdle
    /\ genLevel = "partial"
    /\ sessions = MaxSessions - 1
    /\ mdAtStart = mdFile
    /\ written = <<>>
    /\ updatingMD = TRUE
    /\ updFile = WriteJSON(<<onboardPrefix \o FileA>>)
    /\ updatedMetadata = <<>>
    /\ UpdatedMetadata = <<>>
    /\ ret = NoCalls
    /\ ops = 0
    /\ versFile = VersForma
    /\ diFile = StoredDevInfo
    /\ Device = "forma"
    /\ driveInfo = StoredDevInfo.recs
    /\ uuids = 0
    /\ sent = {[img |-> "YCbCr", sz |-> "odd"]}
    /\ Passwords = newUncagedPassword(<<>>)

IsoNext ==
    \/ New
    \/ ScheduleCover
    \/ \E u \in 1..MaxUnits : UnitDecode(u) \/ UnitTarget(u) \/ UnitReturn(u)
    \/ UpdateNickelDB
    \/ CloseBegin
    \/ Close

SpecIso == IsoInit /\ [][IsoNext]_vars

----------------------------------------------------------------------------
(* The device lookup of both programs, on up to MaxSessions sessions *)

DevInit ==
    /\ contentIDprefix = onboardPrefix
    /\ MapperIdle
    /\ impl \in {"device", "main"}
    /\ catalog = {RowA} \cup FixedRows
    /\ fs \in {f \in FileStates : \A x \in DOMAIN f : f[x] = "ok"}
    /\ rootMtime = 0
    /\ mdFile = File("absent")
    /\ pc = "off"
    /\ err = "nil"
    /\ MetadataMap = <<>>
    /\ nickelDB = "none"
    /\ ThumbsIdle
    /\ genLevel = "none"
    /\ sessions = 0
    /\ mdAtStart = mdFile
    /\ written = <<>>
    /\ OpsIdle
    /\ versFile \in VersFiles
    /\ diFile \in DevInfoFiles
    /\ Device = ""
    /\ driveInfo = ZeroDevInfo
    /\ uuids = 0
    /\ sent = CoversSent
    /\ Passwords = newUncagedPassword(<<>>)

DevNext ==
    \/ New
    \/ ku_SetDeviceInfo
    \/ SaveDeviceInfo
    \/ CloseBegin
    \/ Close
    \/ ku_Exit
    \/ ku_NewFailed

SpecDev == DevInit /\ [][DevNext]_vars

----------------------------------------------------------------------------
(* device.go: the password list *)

MaxPwLen == 2

\* k.KuConfig.PasswordList: the configured passwords
PasswordLists == SeqsUpTo({"p", "q"}, MaxPwLen)

\* A NextPassword that does not advance
NextPasswordAgain(pw) ==
    IF pw.currPassIndex < Len(pw.passwordList)
    THEN [password |-> pw.passwordList[pw.currPassIndex + 1], pw |-> pw]
    ELSE [password |-> "", pw |-> pw]

\* uncagedPassword.NextPassword: the password returned and pw afterwards;
\* Go indexes the list from 0, a sequence is indexed from 1
NextPasswordOf(pw) ==
    IF pw.currPassIndex < Len(pw.passwordList)
    THEN [password |-> pw.passwordList[pw.currPassIndex + 1],
          pw |-> [pw EXCEPT !.currPassIndex = @ + 1]]
    ELSE [password |-> "", pw |-> pw]

\* The passwords that the calls of this session have returned so far
Given == IF ret.op = "NextPassword" /\ ret.session = sessions
         THEN ret.given ELSE <<>>

\* k.Passwords.NextPassword()
NextPassword ==
    /\ Called
    /\ LET next == NextPasswordOf(Passwords)
       IN  /\ Passwords' = next.pw
           /\ ret' = [op |-> "NextPassword", password |-> next.password,
                      given |-> Append(Given, next.password),
                      session |-> sessions]
    /\ UNCHANGED <<contentIDprefix, idVars, impl, envVars, pc, err, MetadataMap,
                   nickelDB, thumbVars, sessions, mdAtStart, written,
                   updatingMD, updFile, updatedMetadata, UpdatedMetadata,
                   versFile, diFile, Device, driveInfo, uuids, sent>>

PwInit ==
    /\ contentIDprefix = onboardPrefix
    /\ MapperIdle
    /\ impl = "device"
    /\ catalog = {RowA} \cup FixedRows
    /\ fs \in {f \in FileStates : \A x \in DOMAIN f : f[x] = "ok"}
    /\ rootMtime = 0
    /\ mdFile = File("absent")
    /\ pc = "off"
    /\ err = "nil"
    /\ MetadataMap = <<>>
    /\ nickelDB = "none"
    /\ ThumbsIdle
    /\ genLevel = "none"
    /\ sessions = 0
    /\ mdAtStart = mdFile
    /\ written = <<>>
    /\ OpsIdle
    /\ versFile = VersForma
    /\ diFile = StoredDevInfo
    /\ Device = ""
    /\ driveInfo = ZeroDevInfo
    /\ uuids = 0
    /\ sent = CoversSent
    /\ Passwords \in {newUncagedPassword(l) : l \in PasswordLists}

PwNext ==
    \/ New
    \/ NextPassword
    \/ CloseBegin
    \/ Close

SpecPw == PwInit /\ [][PwNext]_vars

----------------------------------------------------------------------------
\* C15: a resize or encode failure for one target of a cover skips that
\* target only: no SaveCoverImage goroutine ends before it has gone through
\* all its targets, and the process goes on.
C15_FailureIsolation ==
    /\ pc # "crashed"
    /\ \A u \in 1..MaxUnits : units[u].pc # "panicked"

\* C16: every entry (c, r) of the Metadata Store that a session holds has
\* the key that r's path maps to under the active prefix.
C16_KeyPathInvariant ==
    pc = "ready"
        => \A c \in DOMAIN MetadataMap :
              IF impl = "device"
              THEN RecomputedID(MetadataMap[c]) = c
              ELSE lpathToContentID(MetadataMap[c].Lpath) = c

\* C17: contentIDtoLpath returns an identifier that does not begin with the
\* active storage prefix as it is.
C17_PassThrough ==
    (/\ mapKind = "cid" /\ Len(mapTrace) >= 2
     /\ ~HasPrefix(mapTrace[1], contentIDprefix))
        => mapTrace[2] = mapTrace[1]

\* C19: after DeleteBook(b) has returned nil, the book that b names is no key
\* of the metadata map and is in neither GetDeviceBookList nor
\* GetMetadataList.
C19_DeleteRemoves ==
    (ret.op = "DeleteBook" /\ ~ret.err)
        => /\ lpathToContentID(ret.lpath) \notin DOMAIN MetadataMap
           /\ \A b \in GetDeviceBookList : b.Lpath # ret.lpath
           /\ \A md \in GetMetadataList : md.Lpath # ret.lpath

\* C20: GetBook(book, filePos) returns the length of the book file and a
\* source positioned at filePos; when the file is not found it returns an
\* error and no source.
C20_FetchHonoursOffset ==
    ret.op = "GetBook"
        => LET fi == Stat(contentIDtoBkPath(lpathToContentID(ret.lpath)))
           IN  IF fi.ok
               THEN ~ret.err => /\ ret.bookLen = fi.Size
                                /\ ret.ebook # None
                                /\ ret.ebook[1].offset = ret.filePos
               ELSE ret.err /\ ret.ebook = None

\* The record that the list given to UpdateMetadata last has for cID
LastFor(mdList, cID) ==
    mdList[SetMax({n \in 1..Len(mdList) :
                      lpathToContentID(mdList[n].Lpath) = cID})]

SentIDs(mdList) ==
    {lpathToContentID(mdList[n].Lpath) : n \in 1..Len(mdList)}

C11_InStep ==
    (impl = "main" /\ pc = "ready")
        => \A cID \in DOMAIN updatedMetadata :
              /\ cID \in DOMAIN MetadataMap
              /\ MetadataMap[cID] = updatedMetadata[cID]

C11_Step ==
    /\ sessions' # sessions => updatedMetadata' = <<>>
    /\ (ops' # ops /\ ret'.op = "SaveBook" /\ ~ret'.err)
          => LET cID == lpathToContentID(ret'.md.Lpath)
             IN  /\ DOMAIN updatedMetadata' = DOMAIN updatedMetadata \cup {cID}
                 /\ updatedMetadata'[cID] = ret'.md
                 /\ \A c \in DOMAIN updatedMetadata \ {cID} :
                       updatedMetadata'[c] = updatedMetadata[c]
    /\ (ops' # ops /\ ret'.op = "UpdateMetadata")
          => /\ DOMAIN updatedMetadata'
                   = DOMAIN updatedMetadata \cup SentIDs(ret'.mdList)
             /\ \A c \in SentIDs(ret'.mdList) :
                   updatedMetadata'[c] = LastFor(ret'.mdList, c)
             /\ \A c \in DOMAIN updatedMetadata \ SentIDs(ret'.mdList) :
                   updatedMetadata'[c] = updatedMetadata[c]

\* C11: the update set is empty when a session starts; in a session every
\* identifier of the update set is a key of the metadata map with the same
\* record, and a successful SaveBook or UpdateMetadata leaves for each
\* identifier it was given the record it was last given for it.
C11_AccumulateInStep == []C11_InStep /\ [][C11_Step]_vars

\* UpdateMetadata was given two records of book A and the later one stayed
C11_Witness ==
    /\ impl = "main"
    /\ ret.op = "UpdateMetadata"
    /\ ret.mdList = <<SentA1, SentA2>>
    /\ onboardPrefix \o FileA \in DOMAIN updatedMetadata
    /\ updatedMetadata[onboardPrefix \o FileA] = SentA2
    /\ MetadataMap[onboardPrefix \o FileA] = SentA2

\* A step in which the program flushes the update set
FlushedByMain ==
    /\ ops' # ops
    /\ \/ ret'.op = "UpdateMetadata"
       \/ ret'.op = "SaveBook" /\ ~ret'.err /\ ret'.lastBook

FlushedByDevice == ops' # ops /\ ret'.op = "WriteUpdateMDfile" /\ ~ret'.err

\* C12: a flush with an empty update set leaves the pending-update file as it
\* was (none, if there was none); a flush with a non-empty update set writes
\* a file that holds exactly the entries of the update set.
C12_FlushIffNonEmpty ==
    [][/\ FlushedByMain
          => IF DOMAIN updatedMetadata' = {}
             THEN updFile' = updFile
             ELSE /\ updFile'.kind = "json"
                  /\ Len(updFile'.recs) = Cardinality(DOMAIN updatedMetadata')
                  /\ Range(updFile'.recs) = Range(updatedMetadata')
       /\ FlushedByDevice
          => IF UpdatedMetadata' = <<>>
             THEN updFile' = updFile
             ELSE updFile' = WriteJSON(UpdatedMetadata')]_vars

WrittenBack == {"Description", "Series", "SeriesNumber", "SeriesNumberFloat"}
NeverWritten ==
    {"ContentID", "Title", "Attribution", "Publisher", "ContentType",
     "MimeType", "IsDownloaded", "Accessibility"}

\* The row that rows has for the identifier of row
SameRow(rows, row) == {r \in rows : r.ContentID = row.ContentID}

Same(r, row, columns) == \A c \in columns : r[c] = row[c]

\* C13 as stated: a step writes description, series, series-number and
\* series-number-float only, in the rows of the identifiers it was given,
\* and leaves every other column of every row as it was.
C13_NarrowWrite ==
    [][/\ Cardinality(catalog') = Cardinality(catalog)
       /\ \A row \in catalog :
             \E r \in SameRow(catalog', row) :
                /\ Same(r, row, NeverWritten \cup {"FileSize"})
                /\ ~Same(r, row, WrittenBack)
                      => row.ContentID \in Range(UpdatedMetadata)]_vars

\* C13, amended: besides that, UpdateIfExists writes the file size of the
\* book row (content type 6) of the identifier it was given; nothing else
\* writes it, and the other columns are never written.
C13_NarrowWriteAndSize ==
    [][/\ Cardinality(catalog') = Cardinality(catalog)
       /\ \A row \in catalog :
             \E r \in SameRow(catalog', row) :
                /\ Same(r, row, NeverWritten)
                /\ ~Same(r, row, WrittenBack)
                      => /\ ret'.op = "UpdateNickelDB"
                         /\ row.ContentID \in Range(UpdatedMetadata)
                /\ ~Same(r, row, {"FileSize"})
                      => /\ ret'.op = "UpdateIfExists"
                         /\ row.ContentID = ret'.cID
                         /\ row.ContentType = 6
                         /\ r.FileSize = ret'.len]_vars

\* The row of book A after UpdateNickelDB wrote its description and
\* UpdateIfExists its file size
C13_Witness ==
    /\ impl = "device"
    /\ ret.op = "UpdateIfExists" /\ ~ret.err
    /\ \E r \in SameRow(catalog, RowA) :
          /\ r.FileSize = 150
          /\ r.Description # RowA.Description
          /\ Same(r, RowA, NeverWritten)

\* The entries of k.UpdatedMetadata whose row update did not fail
Applied(failed) == (1..Len(UpdatedMetadata)) \ failed

\* C14: when UpdateNickelDB returns, with or without an error and whatever
\* rows failed, there is no pending-update file; the row of every entry
\* whose update did not fail has the values of the entry's record, unless a
\* later entry names the same row.
C14_WriteBackConsumes ==
    [][(ops' # ops /\ ret'.op = "UpdateNickelDB")
          => /\ updFile'.kind = "absent"
             /\ ~ret'.err
                   => \A n \in Applied(ret'.failed) :
                         \/ \E m \in Applied(ret'.failed) :
                               m > n /\ UpdatedMetadata[m] = UpdatedMetadata[n]
                         \/ \A row \in catalog :
                               row.ContentID = UpdatedMetadata[n]
                                  => UpdateRow(row, UpdatedMetadata[n]) \in catalog']_vars

\* The update of the first of two rows failed, the second row was written,
\* and the file is gone
C14_Witness ==
    /\ impl = "device"
    /\ ret.op = "UpdateNickelDB" /\ ~ret.err
    /\ ret.failed = {1}
    /\ Len(UpdatedMetadata) = 2
    /\ updFile.kind = "absent"
    /\ RowA \in catalog
    /\ RowB \notin catalog

\* The calibre:series_index texts of the container of row, when it opens
SeriesIndexTexts(row) ==
    LET bk == EpubOpen(ContentIDtoBkPath(row.ContentID, contentIDprefix))
    IN  IF row.MimeType \in {MimeEpub, MimeKepub} /\ ~bk.err
        THEN {bk.opf.Meta[n].Content :
                 n \in {i \in 1..Len(bk.opf.Meta) :
                           bk.opf.Meta[i].Name = "calibre:series_index"}}
        ELSE {}

\* C24: in a record made for a row that no cached record names, series-number
\* text that parses as a float gives the series index, and text that does
\* not parse leaves the series index unset; no error is raised. A container
\* that gives a series index that parses may replace the value.
C24_SeriesIndexParsing ==
    [][(NewStep /\ impl = "device" /\ err' = "nil")
          => LET cache == IF mdFile.kind = "json" THEN mdFile.recs ELSE <<>>
             IN  \A row \in QueryRows :
                    LET cid == row.ContentID
                        hits == {n \in 1..Len(cache) : RecomputedID(cache[n]) = cid}
                        parsed == {t \in SeriesIndexTexts(row) : ParseFloat(t).ok}
                        text == row.SeriesNumber
                    IN  (hits = {} /\ parsed = {})
                           => MetadataMap'[cid].SeriesIndex
                                 = IF text # None /\ ParseFloat(text[1]).ok
                                   THEN Some(ParseFloat(text[1]).val)
                                   ELSE None]_vars

\* C28: a SaveBook that fails returns an error and no byte sink, and leaves
\* the metadata map, the update set, the side-cache file and the
\* pending-update file as they were, with lastBook set or not.
C28_SaveBookAllOrNothing ==
    [][(ops' # ops /\ ret'.op = "SaveBook" /\ ret'.err)
          => /\ ret'.book = None
             /\ MetadataMap' = MetadataMap
             /\ updatedMetadata' = updatedMetadata
             /\ mdFile' = mdFile
             /\ updFile' = updFile]_vars

\* After book A was saved, the SaveBook of the last book of the batch failed
C28_Witness ==
    /\ impl = "main"
    /\ ret.op = "SaveBook" /\ ret.err /\ ret.lastBook /\ ret.md = SentN
    /\ DOMAIN updatedMetadata = {onboardPrefix \o FileA}
    /\ updFile.kind = "absent"

\* C21: when New fails in main.go (the catalog cannot be opened, the
\* side-cache is not empty and cannot be parsed, or the query or a scan
\* fails), mainWithErrCode returns kuError and the protocol session is not
\* started.
C21_FatalReachesBoundary ==
    (impl = "main" /\ ret.op = "mainWithErrCode" /\ err # "nil")
        => ret.code = "kuError" /\ ~ret.started

\* The files from which New cannot tell the model, or the device info
ModelUntold ==
    versFile.kind \in {"absent", "empty"} \/ versFile = VersUnknown
DevInfoUntold == diFile.kind \in {"absent", "empty"}

DefaultCoverDetails ==
    [fullCover |-> <<600, 800>>, libFull |-> <<355, 473>>,
     libGrid |-> <<149, 198>>]

\* C22: when .kobo/version is absent, empty or names a model that is not
\* known, getKoboInfo returns no error and the session has the default cover
\* sizes and model name; when driveinfo.calibre is absent or empty,
\* loadDeviceInfo returns no error and the session has device info that was
\* generated for it.
C22_BestEffortLookup ==
    [][(NewStep /\ err' # "open")
          => /\ ModelUntold
                => /\ err' # "version"
                   /\ impl = "main"
                         => /\ ku_modelName(Device') = "Unknown Kobo"
                            /\ ku_coverDetails(Device') = DefaultCoverDetails
             /\ (DevInfoUntold /\ err' \notin {"version", "panic"})
                => /\ err' # "devinfo"
                   /\ uuids' = uuids + 1
                   /\ driveInfo'.DeviceStoreUUID = uuids'
                   /\ driveInfo'.LocationCode = "main"]_vars

\* C23: an identifier is generated only by a session that finds no
\* driveinfo.calibre (or an empty one); a session that starts after a session
\* that generated its identifier generates none and has that identifier.
C23_StableIdentifier ==
    [][NewStep
          => /\ uuids' # uuids => DevInfoUntold
             /\ (pc = "closed" /\ uuids >= 1 /\ driveInfo.DeviceStoreUUID = uuids)
                => /\ uuids' = uuids
                   /\ pc' = "ready"
                         => driveInfo'.DeviceStoreUUID
                               = driveInfo.DeviceStoreUUID]_vars


\* C25: within a thumbnail unit, the image that is encoded and written for
\* a raster target has exactly the size computed for that target: every cover
\* file, whole or cut short by an encoding error, holds an image of the size
\* that Resize computes for its target
C25_ResizeOrSkip ==
    [][\A c \in covers' \ covers : c[4] = Resize(c[2], units[c[1]].sz)]_vars


\* The files that unit u has written, each with its target and whether the
\* encoding completed
FilesOf(u) == {<<c[2], c[3]>> : c \in {d \in covers : d[1] = u}}

\* The raster targets that the claim gives for each generation level
LevelTargets ==
    CASE genLevel = "all" -> {"fullCover", "libFull", "libGrid"}
      [] genLevel = "partial" -> {"libFull", "libGrid"}
      [] genLevel = "none" -> {}

\* C26: a thumbnail unit that met no error has written whole files for
\* exactly the targets of the generation level (all: full cover, library-full
\* and library-grid; partial: library-full and library-grid; none: no file),
\* no unit writes a file for another target, and every unit signals the join
\* barrier exactly once: the counter is the number of units that are scheduled
\* and have not returned.
C26_TargetsPerLevel ==
    /\ \A u \in 1..MaxUnits :
          /\ (units[u].pc = "done" /\ ~units[u].errs)
                => FilesOf(u) = {<<t, "whole">> : t \in LevelTargets}
          /\ \A f \in FilesOf(u) : f[1] \in LevelTargets
    /\ wg = Cardinality({u \in 1..MaxUnits : Running(u)})

\* C26 witness: at level partial one unit has returned without an error and
\* its two files are written, while another unit is still at work
C26_Witness ==
    /\ genLevel = "partial"
    /\ \E u \in 1..MaxUnits :
          /\ units[u].pc = "done"
          /\ ~units[u].errs
          /\ FilesOf(u) = {<<"libFull", "whole">>, <<"libGrid", "whole">>}
    /\ \E u \in 1..MaxUnits : Running(u)
    /\ wg = 1


\* A step of a thumbnail unit: a unit that is scheduled and has not returned
\* moves, within the session
UnitStep ==
    /\ sessions' = sessions
    /\ \E u \in 1..MaxUnits : Running(u) /\ units'[u] # units[u]

\* C27: whatever the main flow does in between, a step of a thumbnail unit
\* leaves the catalog connection, the catalog, the Metadata Store, the
\* session update set and both side-cache files as they are; apart from the
\* unit's own position and image it changes only the join-barrier counter and
\* the cover files.
C27_UnitsIsolated ==
    [][UnitStep
          => /\ UNCHANGED <<nickelDB, catalog, MetadataMap, UpdatedMetadata,
                            updatingMD, mdFile, updFile>>
             /\ UNCHANGED <<sessionVars, pc>>
             /\ \A v \in 1..MaxUnits :
                   units'[v] # units[v] => Running(v)]_vars

\* C27 witness: a unit has written a cover file and is still at work while
\* the main flow, with books in the Metadata Store and in the session update
\* set, has written the update set back over the open catalog connection
C27_Witness ==
    /\ pc = "ready"
    /\ nickelDB = "open"
    /\ ret.op = "UpdateNickelDB" /\ ~ret.err
    /\ UpdatedMetadata # <<>>
    /\ MetadataMap # <<>>
    /\ \E u \in 1..MaxUnits :
          /\ Running(u)
          /\ \E c \in covers : c[1] = u


\* C29: the calls of NextPassword in a session return the configured
\* passwords in list order, each position once, and the empty string from the
\* call after the last password on; the index never exceeds the length of the
\* list.
C29_PasswordIteration ==
    LET list == Passwords.passwordList
    IN  /\ Passwords.currPassIndex <= Len(list)
        /\ \A n \in 1..Len(Given) :
              Given[n] = IF n <= Len(list) THEN list[n] ELSE ""
        /\ ret.op = "NextPassword" /\ ret.session = sessions
              => Passwords.currPassIndex
                    = IF Len(Given) <= Len(list) THEN Len(Given) ELSE Len(list)

\* C29 witness: with two passwords configured, three calls have returned the
\* first, the second and then the empty string
C29_Witness ==
    /\ Passwords.passwordList = <<"p", "q">>
    /\ Passwords.currPassIndex = 2
    /\ ret.op = "NextPassword"
    /\ ret.given = <<"p", "q", "">>

============================================================================
